---- MODULE Spec2Model ----
(***************************************************************************)
(* fleetctl: the reconciliation engine (Fleet.Scale, Fleet.RollingRestart, *)
(* Fleet.SyncState, Fleet.ReconcileLoadBalancer), the daemon's control     *)
(* loop and HTTP handlers, the ledger (state.Store) and the process-global *)
(* metrics register.                                                       *)
(*                                                                         *)
(* Every goroutine that runs engine code is a process of Procs: "loop" is  *)
(* the control loop, "h1" and "h2" are goroutines serving HTTP requests    *)
(* (net/http runs every request on its own goroutine, and POST /scale      *)
(* spawns one more).  tk[p] is the goroutine's position and locals.  One   *)
(* action is one critical section: a cloud call, a store call (the store   *)
(* mutex is held across load-modify-save) or a run of metrics calls.       *)
(*                                                                         *)
(* The cloud adapter is external: a launch or terminate request, a list    *)
(* call and every load-balancer call may fail; a wait that follows an      *)
(* accepted request completes.  Store file I/O does not fail.              *)
(***************************************************************************)
EXTENDS Integers, Sequences, FiniteSets, TLC

\* ---------------------------------------------------------------- bounds
MaxIds == 4          \* cloud instance identifiers are 1..MaxIds
MaxInit == 2         \* instances live / recorded before the daemon starts
MaxDesired == 3      \* largest desired total of a request or a declaration
MaxTicks == 2        \* control-loop iterations
MaxReqs == 2         \* HTTP requests served
MaxEdits == 1        \* edits of the configuration file
LoopTicks == 1       \* control-loop iterations beside a POST /scale
LoopReqs == 1        \* POST /scale requests beside the control loop
MaxClock == 1        \* advances of the wall clock
MaxQueue == 3        \* entries of the pending scale queue

\* ------------------------------------------------------ program constants
DefaultParallelLaunch == 5
DefaultParallelTerminate == 10

Procs == {"loop", "h1", "h2"}
Ids == 1..MaxIds
ERR == 0             \* a failed worker's result on resCh / terrCh

VARIABLES
    cloud,      \* Ids -> lifecycle state of the tagged instance with that id
    ledger,     \* the fleet's InstanceRecord sequence in the store file
    backends,   \* ids of the instances whose primary IP is a backend
    lbInfo,     \* the ledger's LB snapshot: [present, count]
    metrics,    \* the process-global ActionsMetrics
    queue,      \* metrics.scaleQueue
    cfg,        \* f.Config
    file,       \* the configuration file on disk
    ctrl,       \* ctrlStatus
    tk,         \* per goroutine: position and locals
    env         \* the environment: request and edit counters, the wall clock
                \* (now), the state of the store's files as a crash would find
                \* them (path, tmp), and history kept for the properties

vars == <<cloud, ledger, backends, lbInfo, metrics, queue, cfg, file, ctrl, tk, env>>

\* ---------------------------------------------------------------- helpers
Max(a, b) == IF a > b THEN a ELSE b

RECURSIVE SeqOfSet(_)
\* the ids of S in ascending order
SeqOfSet(S) ==
    IF S = {} THEN <<>>
    ELSE LET m == CHOOSE x \in S : \A y \in S : x <= y
         IN <<m>> \o SeqOfSet(S \ {m})

Range(s) == {s[i] : i \in DOMAIN s}

\* ------------------------------------------------------------------ cloud
\* ListInstancesByFleet skips only TERMINATED instances.
ListedWithTerminated(c) == {i \in Ids : c[i] # "NONE"}
Listed(c) == {i \in Ids : c[i] \in {"PROVISIONING", "RUNNING", "TERMINATING"}}

HasFreeId == \E i \in Ids : cloud[i] = "NONE"
FreeId == CHOOSE i \in Ids : cloud[i] = "NONE" /\ \A j \in Ids : cloud[j] = "NONE" => i <= j

\* TerminateInstance accepted for id: a live instance starts terminating.
TerminateAccepted(c, id) ==
    [c EXCEPT ![id] = IF @ \in {"PROVISIONING", "RUNNING"} THEN "TERMINATING" ELSE @]

\* waitInstanceState(id, TERMINATED) returns.
TerminateWaited(c, id) ==
    [c EXCEPT ![id] = IF @ = "TERMINATING" THEN "TERMINATED" ELSE @]

\* ----------------------------------------------------------------- ledger
\* time.Now(), in advances of the wall clock
Now == env.now

\* InstanceRecord{ID, Status: Active, CreatedAt: now, UpdatedAt: now}
Rec(id) == [id |-> id, st |-> "Active", at |-> Now]

CountActive(l) == Cardinality({i \in DOMAIN l : l[i].st = "Active"})

AddActiveRecord(l, id) == Append(l, Rec(id))

MarkTerminatedAll(l, S) ==
    [i \in DOMAIN l |-> IF S # {}
                         THEN [l[i] EXCEPT !.st = "Terminated", !.at = Now]
                         ELSE l[i]]

MarkTerminatedByIDs(l, S) ==
    [i \in DOMAIN l |-> IF l[i].id \in S
                         THEN [l[i] EXCEPT !.st = "Terminated", !.at = Now]
                         ELSE l[i]]

RECURSIVE LifoFromAny(_, _, _)
LifoFromAny(l, n, k) ==
    IF n = 0 \/ k <= 0 THEN <<>>
    ELSE <<l[n].id>> \o LifoFromAny(l, n - 1, k - 1)

RECURSIVE LifoFrom(_, _, _)
\* up to k ids of Active records of l[1..n], last record first
LifoFrom(l, n, k) ==
    IF n = 0 \/ k <= 0 THEN <<>>
    ELSE IF l[n].st = "Active" THEN <<l[n].id>> \o LifoFrom(l, n - 1, k - 1)
    ELSE LifoFrom(l, n - 1, k)

ActiveRecordsLIFO(l, k) == LifoFrom(l, Len(l), k)

ResetFleetActive(ids) == [i \in DOMAIN ids |-> Rec(ids[i])]

ActiveIds(l) == {l[i].id : i \in {j \in DOMAIN l : l[j].st = "Active"}}

\* the ledger's Active records are exactly the running instances, one each
Consistent ==
    /\ ActiveIds(ledger) = Listed(cloud)
    /\ CountActive(ledger) = Cardinality(Listed(cloud))
    /\ \A i \in Listed(cloud) : cloud[i] = "RUNNING"

\* ---------------------------------------------------------------- metrics
MetricsZero ==
    [op |-> "", phase |-> "", lr |-> 0, ls |-> 0, lf |-> 0,
     tr |-> 0, ts |-> 0, tf |-> 0, err |-> FALSE, rrIdx |-> 0, rrTotal |-> 0,
     lbOn |-> FALSE, lbN |-> 0]

Reset(m, operation) ==
    [m EXCEPT !.op = operation, !.phase = "planning", !.lr = 0, !.ls = 0, !.lf = 0,
              !.tr = 0, !.ts = 0, !.tf = 0, !.rrIdx = 0, !.rrTotal = 0, !.err = FALSE]

DoneKeepsOperation(m) == [m EXCEPT !.phase = "done"]
Done(m) == [m EXCEPT !.phase = "done", !.op = ""]

SetPhase(m, phase) == [m EXCEPT !.phase = phase]

SetError(m) == [m EXCEPT !.err = TRUE]

IncLaunchRequested(m, n) == [m EXCEPT !.lr = Max(0, @ + n)]
IncLaunchSucceeded(m) == [m EXCEPT !.ls = @ + 1]
IncLaunchFailed(m) == [m EXCEPT !.lf = @ + 1, !.err = TRUE]
IncTerminateRequested(m, n) == [m EXCEPT !.tr = Max(0, @ + n)]
IncTerminateSucceeded(m) == [m EXCEPT !.ts = @ + 1]
IncTerminateFailed(m) == [m EXCEPT !.tf = @ + 1, !.err = TRUE]
SetRollingRestart(m, index, total) == [m EXCEPT !.rrIdx = index, !.rrTotal = total]
UpdateLB(m, enabled, n) == [m EXCEPT !.lbOn = enabled, !.lbN = Max(0, n)]

AppendScaleQueue(q, d) == Append(q, d)

PopScaleQueueHead(q, d) == IF q # <<>> THEN Tail(q) ELSE q

\* pops the head if and only if it equals d
PopScaleQueueIfHead(q, d) == IF q # <<>> /\ Head(q) = d THEN Tail(q) ELSE q

\* ------------------------------------------------------------ goroutines
Idle ==
    [pc |-> "idle", op |-> "none", desired |-> 0, current |-> 0, remote |-> 0,
     waiting |-> 0, inflight |-> {}, resCh |-> <<>>, fresh |-> {},
     todo |-> {}, par |-> 0, ids |-> <<>>, i |-> 0, listed |-> <<>>,
     lbOn |-> FALSE, res |-> "none", target |-> 0, made |-> {}, nt |-> 0,
     cons |-> FALSE, log |-> <<>>, resp |-> "none",
     was |-> <<>>, doc |-> <<>>, got |-> <<>>, group |-> ""]

\* The goroutine returns from the engine operation with result r.  Kept for
\* the properties: made, the instances this operation launched; nt, the
\* TerminateInstances calls it issued; of a rolling restart, the records it
\* took (ids, current) and cons, whether the ledger's Active records were
\* the live instances when it started.  While it runs, log lists the load
\* balancer, cloud and ledger calls of the operation in the order it made
\* them, and resp is the answer the HTTP request has been given so far.  The
\* log of a ReconcileLoadBalancer is kept when it returns.
Return(t, r) ==
    [Idle EXCEPT !.pc = "ret", !.op = t.op, !.desired = t.desired, !.res = r,
                 !.target = t.target, !.made = t.made, !.nt = t.nt,
                 !.ids = IF t.op = "rolling-restart" THEN t.ids ELSE <<>>,
                 !.current = IF t.op = "rolling-restart" THEN t.current ELSE 0,
                 !.cons = t.cons, !.resp = t.resp,
                 !.log = IF t.op = "lb-reconcile" THEN t.log ELSE <<>>]

RECURSIVE SumCounts(_)
\* for _, g := range f.Config.Spec.Instances { desired += g.Count }
SumCounts(insts) ==
    IF insts = <<>> THEN 0 ELSE Head(insts).count + SumCounts(Tail(insts))

\* an entry of instances[]: InstanceSpec{Name, Count}
InstanceSpec(name, count) == [name |-> name, count |-> count]

\* the instances[] lists a configuration may declare, the groups unnamed
InstanceLists ==
    {<<>>} \cup {<<InstanceSpec("", n)>> : n \in 1..MaxDesired}
           \cup {<<InstanceSpec("", 1), InstanceSpec("", n)>> : n \in 1..(MaxDesired - 1)}

\* group := "default", or Instances[0].Name when there is a first entry and
\* its name is not empty
GroupOf(insts) ==
    IF Len(insts) > 0 /\ insts[1].name # "" THEN insts[1].name ELSE "default"

ParLaunchIgnoresConfig == DefaultParallelLaunch
ParLaunch == IF cfg.parLaunch <= 0 THEN DefaultParallelLaunch ELSE cfg.parLaunch
ParTerminate == IF cfg.parTerminate <= 0 THEN DefaultParallelTerminate ELSE cfg.parTerminate

\* ------------------------------------------------------------ Fleet.Scale
\* current := f.Store.CountActive(fleetName)
ScaleCount(p) ==
    /\ tk[p].pc = "sc_count"
    /\ tk' = [tk EXCEPT ![p].current = CountActive(ledger), ![p].pc = "sc_list"]
    /\ UNCHANGED <<cloud, ledger, backends, lbInfo, metrics, queue, cfg, file, ctrl, env>>

\* the no-op check and the direction decision, given the remote count
ScaleDecide(t, remote) ==
    IF t.desired = t.current /\ t.desired = remote THEN Return(t, "ok")
    ELSE IF t.desired > remote
         THEN [t EXCEPT !.remote = remote, !.pc = "su_reset"]
         ELSE [t EXCEPT !.remote = remote, !.pc = "sd_select"]

\* remoteCurrent: the listed count, or the ledger count when the list call
\* fails; past the no-op check, the group the launches will go to
ScalePlan(p) ==
    /\ tk[p].pc = "sc_list"
    /\ \E listOk \in BOOLEAN :
         LET remote == IF listOk THEN Cardinality(Listed(cloud)) ELSE tk[p].current
             t == ScaleDecide(tk[p], remote)
         IN  tk' = [tk EXCEPT ![p] = IF t.pc = "ret" THEN t
                                      ELSE [t EXCEPT !.group = GroupOf(cfg.instances)]]
    /\ UNCHANGED <<cloud, ledger, backends, lbInfo, metrics, queue, cfg, file, ctrl, env>>

ScaleUpReset(p) ==
    /\ tk[p].pc = "su_reset"
    /\ metrics' = Reset(metrics, "scale-up")
    /\ tk' = [tk EXCEPT ![p].pc = "su_begin"]
    /\ UNCHANGED <<cloud, ledger, backends, lbInfo, queue, cfg, file, ctrl, env>>

\* SetPhase("launch"), IncLaunchRequested(missing), the workers are spawned
ScaleUpBegin(p) ==
    /\ tk[p].pc = "su_begin"
    /\ LET missing == tk[p].desired - tk[p].remote
       IN /\ metrics' = IncLaunchRequested(SetPhase(metrics, "launch"), missing)
          /\ tk' = [tk EXCEPT ![p].waiting = missing, ![p].par = ParLaunch,
                              ![p].pc = "su_workers"]
    /\ UNCHANGED <<cloud, ledger, backends, lbInfo, queue, cfg, file, ctrl, env>>

\* a worker takes a slot of sem and calls LaunchInstances: the request fails, or
\* the instance is created and the worker waits for it to run
LaunchStart(p) ==
    /\ tk[p].pc = "su_workers"
    /\ tk[p].waiting > 0
    /\ Cardinality(tk[p].inflight) < tk[p].par
    /\ \/ /\ tk' = [tk EXCEPT ![p].waiting = @ - 1, ![p].resCh = Append(@, ERR)]
          /\ UNCHANGED cloud
       \/ /\ HasFreeId
          /\ cloud' = [cloud EXCEPT ![FreeId] = "PROVISIONING"]
          /\ tk' = [tk EXCEPT ![p].waiting = @ - 1, ![p].inflight = @ \cup {FreeId}]
    /\ UNCHANGED <<ledger, backends, lbInfo, metrics, queue, cfg, file, ctrl, env>>

\* the instance runs; the worker sends it on resCh and frees its slot
LaunchFinish(p) ==
    /\ tk[p].pc = "su_workers"
    /\ \E id \in tk[p].inflight :
         /\ cloud[id] = "PROVISIONING"
         /\ cloud' = [cloud EXCEPT ![id] = "RUNNING"]
         /\ tk' = [tk EXCEPT ![p].inflight = @ \ {id}, ![p].resCh = Append(@, id),
                             ![p].made = @ \cup {id}]
    /\ UNCHANGED <<ledger, backends, lbInfo, metrics, queue, cfg, file, ctrl, env>>

WorkersDone(t) == t.waiting = 0 /\ t.todo = {} /\ t.inflight = {}

\* one iteration of "for r := range resCh" after wg.Wait()
ScaleUpResult(p) ==
    /\ tk[p].pc = "su_workers"
    /\ WorkersDone(tk[p])
    /\ tk[p].resCh # <<>>
    /\ LET r == Head(tk[p].resCh)
       IN IF r = ERR
          THEN /\ metrics' = IncLaunchFailed(metrics)
               /\ tk' = [tk EXCEPT ![p] = Return(tk[p], "err")]
               /\ UNCHANGED ledger
          ELSE /\ ledger' = AddActiveRecord(ledger, r)
               /\ metrics' = IncLaunchSucceeded(metrics)
               /\ tk' = [tk EXCEPT ![p].resCh = Tail(@), ![p].fresh = @ \cup {r}]
    /\ UNCHANGED <<cloud, backends, lbInfo, queue, cfg, file, ctrl, env>>

\* LB registration of the new instances (each LB call may fail), then
\* SetPhase("verify")
ScaleUpLB(p) ==
    /\ tk[p].pc = "su_workers"
    /\ WorkersDone(tk[p])
    /\ tk[p].resCh = <<>>
    /\ IF cfg.lbEnabled
       THEN \E ensureOk, countOk \in BOOLEAN : \E S \in SUBSET tk[p].fresh :
              IF ensureOk
              THEN /\ backends' = backends \cup S
                   /\ LET n == IF countOk THEN Cardinality(backends') ELSE 0
                      IN /\ metrics' = SetPhase(UpdateLB(metrics, TRUE, n), "verify")
                         /\ lbInfo' = [present |-> TRUE, count |-> n]
              ELSE /\ S = {} /\ countOk
                   /\ metrics' = SetPhase(metrics, "verify")
                   /\ UNCHANGED <<backends, lbInfo>>
       ELSE /\ metrics' = SetPhase(metrics, "verify")
            /\ UNCHANGED <<backends, lbInfo>>
    /\ tk' = [tk EXCEPT ![p].pc = "verify", ![p].fresh = {}]
    /\ UNCHANGED <<cloud, ledger, queue, cfg, file, ctrl, env>>

VerifySkipsCount(p) ==
    /\ tk[p].pc = "verify"
    /\ \E listOk \in BOOLEAN :
         IF listOk
         THEN /\ tk' = [tk EXCEPT ![p].pc = "sy_list"]
              /\ UNCHANGED metrics
         ELSE /\ metrics' = SetError(metrics)
              /\ tk' = [tk EXCEPT ![p] = Return(tk[p], "err")]
    /\ UNCHANGED <<cloud, ledger, backends, lbInfo, queue, cfg, file, ctrl, env>>

\* verifyActualMatches: a poll finds the count equal to desired, or the list
\* call fails, or the deadline passes on a poll that finds another count; a
\* poll that sleeps changes nothing
Verify(p) ==
    /\ tk[p].pc = "verify"
    /\ \E listOk \in BOOLEAN :
         IF listOk /\ Cardinality(Listed(cloud)) = tk[p].desired
         THEN /\ tk' = [tk EXCEPT ![p].pc = "sy_list"]
              /\ UNCHANGED metrics
         ELSE /\ metrics' = SetError(metrics)
              /\ tk' = [tk EXCEPT ![p] = Return(tk[p], "err")]
    /\ UNCHANGED <<cloud, ledger, backends, lbInfo, queue, cfg, file, ctrl, env>>

\* metrics.Done(); return nil
ScaleDone(p) ==
    /\ tk[p].pc = "sc_done"
    /\ metrics' = Done(metrics)
    /\ tk' = [tk EXCEPT ![p] = Return(tk[p], "ok")]
    /\ UNCHANGED <<cloud, ledger, backends, lbInfo, queue, cfg, file, ctrl, env>>

ScaleDownSelectSkipsLB(p) ==
    /\ tk[p].pc = "sd_select"
    /\ tk' = [tk EXCEPT ![p].ids = ActiveRecordsLIFO(ledger, tk[p].current - tk[p].desired),
                        ![p].pc = "sd_reset"]
    /\ UNCHANGED <<cloud, ledger, backends, lbInfo, metrics, queue, cfg, file, ctrl, env>>

\* toRemove := current - desiredTotal; recs := ActiveRecordsLIFO(toRemove)
ScaleDownSelect(p) ==
    /\ tk[p].pc = "sd_select"
    /\ tk' = [tk EXCEPT ![p].ids = ActiveRecordsLIFO(ledger, tk[p].current - tk[p].desired),
                        ![p].pc = "sd_lb"]
    /\ UNCHANGED <<cloud, ledger, backends, lbInfo, metrics, queue, cfg, file, ctrl, env>>

ScaleDownLBFatal(p) ==
    /\ tk[p].pc = "sd_lb"
    /\ IF cfg.lbEnabled /\ tk[p].ids # <<>>
       THEN \E ensureOk, countOk \in BOOLEAN : \E S \in SUBSET Range(tk[p].ids) :
              IF ensureOk
              THEN /\ backends' = backends \ S
                   /\ LET n == IF countOk THEN Cardinality(backends') ELSE 0
                      IN /\ metrics' = UpdateLB(metrics, TRUE, n)
                         /\ lbInfo' = [present |-> TRUE, count |-> n]
                   /\ tk' = [tk EXCEPT ![p].pc = "sd_reset",
                                       ![p].log = @ \o [k \in DOMAIN tk[p].ids |->
                                                           <<"lb-remove", tk[p].ids[k]>>]]
              ELSE /\ S = {} /\ countOk
                   /\ UNCHANGED <<backends, lbInfo, metrics>>
                   /\ tk' = [tk EXCEPT ![p] = Return(tk[p], "err")]
       ELSE /\ UNCHANGED <<backends, lbInfo, metrics>>
            /\ tk' = [tk EXCEPT ![p].pc = "sd_reset"]
    /\ UNCHANGED <<cloud, ledger, queue, cfg, file, ctrl, env>>

\* LB deregistration of the selected instances, before any terminate
ScaleDownLB(p) ==
    /\ tk[p].pc = "sd_lb"
    /\ IF cfg.lbEnabled /\ tk[p].ids # <<>>
       THEN \E ensureOk, countOk \in BOOLEAN : \E S \in SUBSET Range(tk[p].ids) :
              IF ensureOk
              THEN /\ backends' = backends \ S
                   /\ LET n == IF countOk THEN Cardinality(backends') ELSE 0
                      IN /\ metrics' = UpdateLB(metrics, TRUE, n)
                         /\ lbInfo' = [present |-> TRUE, count |-> n]
                   /\ tk' = [tk EXCEPT ![p].pc = "sd_reset",
                                       ![p].log = @ \o [k \in DOMAIN tk[p].ids |->
                                                           <<"lb-remove", tk[p].ids[k]>>]]
              ELSE /\ S = {} /\ countOk
                   /\ UNCHANGED <<backends, lbInfo, metrics>>
                   /\ tk' = [tk EXCEPT ![p].pc = "sd_reset",
                                       ![p].log = Append(@, <<"lb-ensure-failed", 0>>)]
       ELSE /\ UNCHANGED <<backends, lbInfo, metrics>>
            /\ tk' = [tk EXCEPT ![p].pc = "sd_reset"]
    /\ UNCHANGED <<cloud, ledger, queue, cfg, file, ctrl, env>>

ScaleDownReset(p) ==
    /\ tk[p].pc = "sd_reset"
    /\ metrics' = Reset(metrics, "scale-down")
    /\ tk' = [tk EXCEPT ![p].pc = "sd_begin"]
    /\ UNCHANGED <<cloud, ledger, backends, lbInfo, queue, cfg, file, ctrl, env>>

\* SetPhase("terminate"), IncTerminateRequested(len(ids)), the workers are spawned
ScaleDownBegin(p) ==
    /\ tk[p].pc = "sd_begin"
    /\ metrics' = IncTerminateRequested(SetPhase(metrics, "terminate"), Len(tk[p].ids))
    /\ tk' = [tk EXCEPT ![p].todo = Range(tk[p].ids), ![p].par = ParTerminate,
                        ![p].pc = "sd_workers"]
    /\ UNCHANGED <<cloud, ledger, backends, lbInfo, queue, cfg, file, ctrl, env>>

\* a worker takes a slot of tsem and calls TerminateInstances for its id: the
\* request fails, or it is accepted and the worker waits for TERMINATED
TermStart(p) ==
    /\ tk[p].pc = "sd_workers"
    /\ Cardinality(tk[p].inflight) < tk[p].par
    /\ \E id \in tk[p].todo :
         \/ /\ metrics' = IncTerminateFailed(metrics)
            /\ tk' = [tk EXCEPT ![p].todo = @ \ {id}, ![p].resCh = Append(@, ERR),
                                ![p].nt = @ + 1, ![p].log = Append(@, <<"terminate", 0>>)]
            /\ UNCHANGED cloud
         \/ /\ cloud' = TerminateAccepted(cloud, id)
            /\ tk' = [tk EXCEPT ![p].todo = @ \ {id}, ![p].inflight = @ \cup {id},
                                ![p].nt = @ + 1, ![p].log = Append(@, <<"terminate", 0>>)]
            /\ UNCHANGED metrics
    /\ UNCHANGED <<ledger, backends, lbInfo, queue, cfg, file, ctrl, env>>

TermFinish(p) ==
    /\ tk[p].pc = "sd_workers"
    /\ \E id \in tk[p].inflight :
         /\ cloud' = TerminateWaited(cloud, id)
         /\ tk' = [tk EXCEPT ![p].inflight = @ \ {id}]
    /\ metrics' = IncTerminateSucceeded(metrics)
    /\ UNCHANGED <<ledger, backends, lbInfo, queue, cfg, file, ctrl, env>>

ScaleDownMarkAlways(p) ==
    /\ tk[p].pc = "sd_workers"
    /\ WorkersDone(tk[p])
    /\ ledger' = MarkTerminatedByIDs(ledger, Range(tk[p].ids))
    /\ IF tk[p].resCh # <<>>
       THEN /\ tk' = [tk EXCEPT ![p] = Return(tk[p], "err")]
            /\ UNCHANGED metrics
       ELSE /\ metrics' = SetPhase(metrics, "verify")
            /\ tk' = [tk EXCEPT ![p].pc = "verify", ![p].ids = <<>>]
    /\ UNCHANGED <<cloud, backends, lbInfo, queue, cfg, file, ctrl, env>>

\* after twg.Wait(): any error on terrCh aborts; else MarkTerminatedByIDs(ids)
\* and SetPhase("verify")
ScaleDownMark(p) ==
    /\ tk[p].pc = "sd_workers"
    /\ WorkersDone(tk[p])
    /\ IF tk[p].resCh # <<>>
       THEN /\ tk' = [tk EXCEPT ![p] = Return(tk[p], "err")]
            /\ UNCHANGED <<ledger, metrics>>
       ELSE /\ ledger' = MarkTerminatedByIDs(ledger, Range(tk[p].ids))
            /\ metrics' = SetPhase(metrics, "verify")
            /\ tk' = [tk EXCEPT ![p].pc = "verify", ![p].ids = <<>>]
    /\ UNCHANGED <<cloud, backends, lbInfo, queue, cfg, file, ctrl, env>>

\* -------------------------------------------------------- Fleet.SyncState
SyncList(p) ==
    /\ tk[p].pc = "sy_list"
    /\ \E listOk \in BOOLEAN :
         IF listOk
         THEN tk' = [tk EXCEPT ![p].listed = SeqOfSet(Listed(cloud)), ![p].pc = "sy_reset"]
         ELSE tk' = [tk EXCEPT ![p] = Return(tk[p], "err")]
    /\ UNCHANGED <<cloud, ledger, backends, lbInfo, metrics, queue, cfg, file, ctrl, env>>

SyncResetAppend(p) ==
    /\ tk[p].pc = "sy_reset"
    /\ ledger' = ledger \o ResetFleetActive(tk[p].listed)
    /\ tk' = [tk EXCEPT ![p] = IF tk[p].op = "scale"
                                THEN [tk[p] EXCEPT !.pc = "sc_done", !.listed = <<>>]
                                ELSE Return(tk[p], "ok")]
    /\ UNCHANGED <<cloud, backends, lbInfo, metrics, queue, cfg, file, ctrl, env>>

\* f.Store.ResetFleetActive(fleetName, records); inside Scale, Done() follows
SyncReset(p) ==
    /\ tk[p].pc = "sy_reset"
    /\ ledger' = ResetFleetActive(tk[p].listed)
    /\ tk' = [tk EXCEPT ![p] = IF tk[p].op = "scale"
                                THEN [tk[p] EXCEPT !.pc = "sc_done", !.listed = <<>>]
                                ELSE Return(tk[p], "ok")]
    /\ UNCHANGED <<cloud, backends, lbInfo, metrics, queue, cfg, file, ctrl, env>>

\* --------------------------------------------------- Fleet.RollingRestart
\* current := CountActive; nothing to restart when it is 0
RRCount(p) ==
    /\ tk[p].pc = "rr_count"
    /\ LET n == CountActive(ledger)
       IN tk' = [tk EXCEPT ![p] = IF n = 0 THEN Return(tk[p], "ok")
                                   ELSE [tk[p] EXCEPT !.current = n, !.pc = "rr_select",
                                                      !.cons = Consistent]]
    /\ UNCHANGED <<cloud, ledger, backends, lbInfo, metrics, queue, cfg, file, ctrl, env>>

\* recs := ActiveRecordsLIFO(current)
RRSelect(p) ==
    /\ tk[p].pc = "rr_select"
    /\ tk' = [tk EXCEPT ![p].ids = ActiveRecordsLIFO(ledger, tk[p].current),
                        ![p].pc = "rr_reset"]
    /\ UNCHANGED <<cloud, ledger, backends, lbInfo, metrics, queue, cfg, file, ctrl, env>>

RRNextSkipsRemove(t, i) ==
    IF i <= Len(t.ids) THEN [t EXCEPT !.i = i, !.pc = "rr_term"]
    ELSE [t EXCEPT !.i = i, !.pc = "rr_finish"]

\* where the loop over recs goes after unit i - 1
RRNext(t, i) ==
    IF i <= Len(t.ids) THEN [t EXCEPT !.i = i, !.pc = "rr_unit"]
    ELSE [t EXCEPT !.i = i, !.pc = "rr_finish"]

\* Reset("rolling-restart"), SetRollingRestart(0, current), lbs.Ensure
RRReset(p) ==
    /\ tk[p].pc = "rr_reset"
    /\ metrics' = SetRollingRestart(Reset(metrics, "rolling-restart"), 0, tk[p].current)
    /\ \E ensureOk \in BOOLEAN :
         /\ cfg.lbEnabled \/ ensureOk
         /\ tk' = [tk EXCEPT ![p] = RRNext([tk[p] EXCEPT !.lbOn = cfg.lbEnabled /\ ensureOk], 1)]
    /\ UNCHANGED <<cloud, ledger, backends, lbInfo, queue, cfg, file, ctrl, env>>

\* SetRollingRestart(i+1, current), LB removal of recs[i], SetPhase("terminate")
RRUnit(p) ==
    /\ tk[p].pc = "rr_unit"
    /\ metrics' = SetPhase(SetRollingRestart(metrics, tk[p].i, tk[p].current), "terminate")
    /\ \E removed \in BOOLEAN :
         /\ tk[p].lbOn \/ ~removed
         /\ backends' = IF removed THEN backends \ {tk[p].ids[tk[p].i]} ELSE backends
    /\ tk' = [tk EXCEPT ![p].pc = "rr_term",
                        ![p].log = IF tk[p].lbOn THEN Append(@, <<"lb-remove", tk[p].i>>) ELSE @]
    /\ UNCHANGED <<cloud, ledger, lbInfo, queue, cfg, file, ctrl, env>>

\* TerminateInstances(recs[i]): the request fails and the operation aborts, or
\* it is accepted
RRTerminate(p) ==
    /\ tk[p].pc = "rr_term"
    /\ \/ /\ metrics' = IncTerminateFailed(metrics)
          /\ tk' = [tk EXCEPT ![p] = Return([tk[p] EXCEPT !.nt = @ + 1], "err")]
          /\ UNCHANGED cloud
       \/ /\ cloud' = TerminateAccepted(cloud, tk[p].ids[tk[p].i])
          /\ tk' = [tk EXCEPT ![p].pc = "rr_termwait", ![p].nt = @ + 1,
                              ![p].log = Append(@, <<"terminate", tk[p].i>>)]
          /\ UNCHANGED metrics
    /\ UNCHANGED <<ledger, backends, lbInfo, queue, cfg, file, ctrl, env>>

\* the wait for TERMINATED returns; IncTerminateSucceeded
RRTermWait(p) ==
    /\ tk[p].pc = "rr_termwait"
    /\ cloud' = TerminateWaited(cloud, tk[p].ids[tk[p].i])
    /\ metrics' = IncTerminateSucceeded(metrics)
    /\ tk' = [tk EXCEPT ![p].pc = "rr_mark"]
    /\ UNCHANGED <<ledger, backends, lbInfo, queue, cfg, file, ctrl, env>>

\* MarkTerminatedByIDs({recs[i].ID}); SetPhase("launch")
RRMark(p) ==
    /\ tk[p].pc = "rr_mark"
    /\ ledger' = MarkTerminatedByIDs(ledger, {tk[p].ids[tk[p].i]})
    /\ metrics' = SetPhase(metrics, "launch")
    /\ tk' = [tk EXCEPT ![p].pc = "rr_launch", ![p].log = Append(@, <<"mark", tk[p].i>>)]
    /\ UNCHANGED <<cloud, backends, lbInfo, queue, cfg, file, ctrl, env>>

\* LaunchInstances(group, 1): the request fails and the operation aborts, or
\* the replacement is created
RRLaunch(p) ==
    /\ tk[p].pc = "rr_launch"
    /\ \/ /\ metrics' = IncLaunchFailed(metrics)
          /\ tk' = [tk EXCEPT ![p] = Return(tk[p], "err")]
          /\ UNCHANGED cloud
       \/ /\ HasFreeId
          /\ cloud' = [cloud EXCEPT ![FreeId] = "PROVISIONING"]
          /\ tk' = [tk EXCEPT ![p].pc = "rr_launchwait", ![p].fresh = {FreeId},
                              ![p].log = Append(@, <<"launch", tk[p].i>>)]
          /\ UNCHANGED metrics
    /\ UNCHANGED <<ledger, backends, lbInfo, queue, cfg, file, ctrl, env>>

\* the replacement runs
RRLaunchWait(p) ==
    /\ tk[p].pc = "rr_launchwait"
    /\ \E id \in tk[p].fresh :
         /\ cloud[id] = "PROVISIONING"
         /\ cloud' = [cloud EXCEPT ![id] = "RUNNING"]
         /\ tk' = [tk EXCEPT ![p].pc = "rr_add", ![p].made = @ \cup {id}]
    /\ UNCHANGED <<ledger, backends, lbInfo, metrics, queue, cfg, file, ctrl, env>>

\* AddActiveRecord(replacement), IncLaunchSucceeded, LB registration; next unit
RRAdd(p) ==
    /\ tk[p].pc = "rr_add"
    /\ \E id \in tk[p].fresh :
         /\ ledger' = AddActiveRecord(ledger, id)
         /\ \E added \in BOOLEAN :
              /\ tk[p].lbOn \/ ~added
              /\ backends' = IF added THEN backends \cup {id} ELSE backends
    /\ metrics' = IncLaunchSucceeded(metrics)
    /\ tk' = [tk EXCEPT ![p] =
                RRNext([tk[p] EXCEPT !.fresh = {},
                                     !.log = @ \o <<<<"append", tk[p].i>>>> \o
                                             (IF tk[p].lbOn THEN <<<<"lb-add", tk[p].i>>>>
                                              ELSE <<>>)],
                       tk[p].i + 1)]
    /\ UNCHANGED <<cloud, lbInfo, queue, cfg, file, ctrl, env>>

\* the LB snapshot after the loop, Done(), return nil
RRFinish(p) ==
    /\ tk[p].pc = "rr_finish"
    /\ \E countOk \in BOOLEAN :
         /\ tk[p].lbOn \/ countOk
         /\ IF tk[p].lbOn
            THEN LET n == IF countOk THEN Cardinality(backends) ELSE 0
                 IN /\ metrics' = Done(UpdateLB(metrics, TRUE, n))
                    /\ lbInfo' = [present |-> TRUE, count |-> n]
            ELSE /\ metrics' = Done(metrics)
                 /\ UNCHANGED lbInfo
    /\ tk' = [tk EXCEPT ![p] = Return(tk[p], "ok")]
    /\ UNCHANGED <<cloud, ledger, backends, queue, cfg, file, ctrl, env>>

\* --------------------------------------------- Fleet.ReconcileLoadBalancer
\* LB disabled: the snapshots are cleared.  Enabled: lbs.Ensure
LBStart(p) ==
    /\ tk[p].pc = "lb_start"
    /\ IF ~cfg.lbEnabled
       THEN /\ metrics' = UpdateLB(metrics, FALSE, 0)
            /\ lbInfo' = [present |-> FALSE, count |-> 0]
            /\ tk' = [tk EXCEPT ![p] = Return(tk[p], "ok")]
       ELSE /\ UNCHANGED lbInfo
            /\ \E ensureOk \in BOOLEAN :
                 IF ensureOk
                 THEN /\ tk' = [tk EXCEPT ![p].pc = "lb_list"]
                      /\ UNCHANGED metrics
                 ELSE /\ metrics' = SetError(metrics)
                      /\ tk' = [tk EXCEPT ![p] = Return(tk[p], "err")]
    /\ UNCHANGED <<cloud, ledger, backends, queue, cfg, file, ctrl, env>>

\* the live tagged instances
LBList(p) ==
    /\ tk[p].pc = "lb_list"
    /\ \E listOk \in BOOLEAN :
         IF listOk
         THEN tk' = [tk EXCEPT ![p].listed = SeqOfSet(Listed(cloud)), ![p].pc = "lb_apply"]
         ELSE tk' = [tk EXCEPT ![p] = Return(tk[p], "err")]
    /\ UNCHANGED <<cloud, ledger, backends, lbInfo, metrics, queue, cfg, file, ctrl, env>>

\* the backends RemoveBackend is called for: in current but not in desired
StaleNone(current, desired) == {}
Stale(current, desired) == current \ desired

\* the instances AddBackend is called for: in desired but not in current
Missing(current, desired) == desired \ current

\* desired: the listed instances whose IP resolves.  ListBackends fails and
\* the operation returns an error, or stale backends are removed and missing
\* ones added (each call may fail), the backends are listed again and the
\* count is published.  The log gets the numbers of backends removed and
\* added, and an entry when an adapter call failed.
LBApply(p) ==
    /\ tk[p].pc = "lb_apply"
    /\ \/ /\ tk' = [tk EXCEPT ![p] = Return(tk[p], "err")]
          /\ UNCHANGED <<backends, lbInfo, metrics>>
       \/ \E desired \in SUBSET Range(tk[p].listed) :
          \E removed \in SUBSET Stale(backends, desired) :
          \E added \in SUBSET Missing(backends, desired) :
          \E countOk \in BOOLEAN :
             LET allOk == /\ desired = Range(tk[p].listed)
                          /\ removed = Stale(backends, desired)
                          /\ added = Missing(backends, desired)
                          /\ countOk
                 calls == <<<<"lb-removed", Cardinality(removed)>>,
                            <<"lb-added", Cardinality(added)>>>>
                          \o (IF allOk THEN <<>> ELSE <<<<"lb-call-failed", 0>>>>)
             IN /\ backends' = (backends \ removed) \cup added
                /\ LET n == IF countOk THEN Cardinality(backends') ELSE 0
                   IN /\ metrics' = UpdateLB(metrics, TRUE, n)
                      /\ lbInfo' = [present |-> TRUE, count |-> n]
                /\ tk' = [tk EXCEPT ![p] = Return([tk[p] EXCEPT !.log = @ \o calls], "ok")]
    /\ UNCHANGED <<cloud, ledger, queue, cfg, file, ctrl, env>>

\* ---------------------------------------------------------- HTTP handlers
NoPrev == [op |-> "none", desired |-> 0, res |-> "none"]

\* the engine call a goroutine begins
Begin(operation, d, entry) == [Idle EXCEPT !.pc = entry, !.op = operation, !.desired = d]

HttpScaleWaits(p) ==
    /\ tk[p].pc = "idle"
    /\ env.reqs < MaxReqs
    /\ \A o \in Procs \ {p} : tk[o].pc \in {"idle", "ret", "tick_start"}
    /\ \E d \in 0..MaxDesired :
         /\ queue' = IF d # CountActive(ledger) THEN AppendScaleQueue(queue, d) ELSE queue
         /\ tk' = [tk EXCEPT ![p] = [Begin("scale", d, "sc_count") EXCEPT !.resp = "202"]]
    /\ env' = [env EXCEPT !.reqs = @ + 1]
    /\ UNCHANGED <<cloud, ledger, backends, lbInfo, metrics, cfg, file, ctrl>>

\* POST /scale with a valid body: the desired total is queued when it differs
\* from CountActive, Scale(desired) is started on a goroutine of its own (p
\* from here on) and the handler answers 202
HttpScale(p) ==
    /\ tk[p].pc = "idle"
    /\ env.reqs < MaxReqs
    /\ \E d \in 0..MaxDesired :
         /\ queue' = IF d # CountActive(ledger) THEN AppendScaleQueue(queue, d) ELSE queue
         /\ tk' = [tk EXCEPT ![p] = [Begin("scale", d, "sc_count") EXCEPT !.resp = "202"]]
    /\ env' = [env EXCEPT !.reqs = @ + 1]
    /\ UNCHANGED <<cloud, ledger, backends, lbInfo, metrics, cfg, file, ctrl>>

\* POST /rolling-restart
HttpRollingRestart(p) ==
    /\ tk[p].pc = "idle"
    /\ env.reqs < MaxReqs
    /\ tk' = [tk EXCEPT ![p] = Begin("rolling-restart", 0, "rr_count")]
    /\ env' = [env EXCEPT !.reqs = @ + 1]
    /\ UNCHANGED <<cloud, ledger, backends, lbInfo, metrics, queue, cfg, file, ctrl>>

\* POST /sync-state
HttpSyncState(p) ==
    /\ tk[p].pc = "idle"
    /\ env.reqs < MaxReqs
    /\ tk' = [tk EXCEPT ![p] = Begin("sync-state", 0, "sy_list")]
    /\ env' = [env EXCEPT !.reqs = @ + 1]
    /\ UNCHANGED <<cloud, ledger, backends, lbInfo, metrics, queue, cfg, file, ctrl>>

\* the operation has returned to the handler (or to the goroutine POST /scale
\* spawned), which logs or answers and ends
HttpReturn(p) ==
    /\ p # "loop"
    /\ tk[p].pc = "ret"
    /\ tk' = [tk EXCEPT ![p] = Idle]
    /\ env' = [env EXCEPT !.prev = [op |-> tk[p].op, desired |-> tk[p].desired,
                                    res |-> tk[p].res]]
    /\ UNCHANGED <<cloud, ledger, backends, lbInfo, metrics, queue, cfg, file, ctrl>>

\* ------------------------------------------------------------ control loop
\* target := desired; if la > target { target = la }
TargetOfDeclared(desired, la) == desired
TargetOf(desired, la) == IF la > desired THEN la ELSE desired

\* whether the tick calls Scale(target)
NeedsScaleDiffers(actual, target) == actual # target
NeedsScale(actual, target) == actual < target

TickStartIgnoresParseError ==
    /\ tk["loop"].pc = "tick_start"
    /\ ctrl.LoopCount < MaxTicks
    /\ ctrl' = [ctrl EXCEPT !.LoopCount = @ + 1]
    /\ tk' = [tk EXCEPT !["loop"].pc = IF file.mod THEN "tick_swap" ELSE "tick_target"]
    /\ UNCHANGED <<cloud, ledger, backends, lbInfo, metrics, queue, cfg, file, env>>

\* LastTick, LoopCount++, and the configuration is parsed again when the
\* file's mtime is after lastMod; a parse failure leaves f.Config and lastMod.
\* After a successful parse the loop starts to copy the new document into
\* f.Config.
TickStart ==
    /\ tk["loop"].pc = "tick_start"
    /\ ctrl.LoopCount < MaxTicks
    /\ ctrl' = [ctrl EXCEPT !.LoopCount = @ + 1]
    /\ tk' = [tk EXCEPT !["loop"].pc = IF file.mod /\ file.ok THEN "tick_swap"
                                       ELSE "tick_target"]
    /\ UNCHANGED <<cloud, ledger, backends, lbInfo, metrics, queue, cfg, file, env>>

\* f.Config = *newCfg has copied the document, field after field, with no
\* lock held; lastMod and LastConfigReload are set and LastError is cleared
TickSwap ==
    /\ tk["loop"].pc = "tick_swap"
    /\ cfg' = [cfg EXCEPT !.instances = file.instances]
    /\ file' = [file EXCEPT !.mod = FALSE]
    /\ ctrl' = [ctrl EXCEPT !.LastError = FALSE]
    /\ tk' = [tk EXCEPT !["loop"].pc = "tick_target"]
    /\ UNCHANGED <<cloud, ledger, backends, lbInfo, metrics, queue, env>>

\* desired := sum of Instances[].Count; la := CountActive; Desired := target
TickTarget ==
    /\ tk["loop"].pc = "tick_target"
    /\ LET la == CountActive(ledger)
           target == TargetOf(SumCounts(cfg.instances), la)
       IN /\ ctrl' = [ctrl EXCEPT !.Desired = target]
          /\ tk' = [tk EXCEPT !["loop"].pc = "tick_list", !["loop"].target = target,
                              !["loop"].current = la]
    /\ UNCHANGED <<cloud, ledger, backends, lbInfo, metrics, queue, cfg, file, env>>

\* actual := len(ListInstancesByFleet); Scale(target) when actual < target
TickList ==
    /\ tk["loop"].pc = "tick_list"
    /\ \E listOk \in BOOLEAN :
         IF ~listOk
         THEN /\ ctrl' = [ctrl EXCEPT !.LastError = TRUE]
              /\ tk' = [tk EXCEPT !["loop"] = [Idle EXCEPT !.pc = "tick_lb"]]
         ELSE LET actual == Cardinality(Listed(cloud))
                  target == tk["loop"].target
              IN IF NeedsScale(actual, target)
                 THEN /\ ctrl' = [ctrl EXCEPT !.Actual = actual, !.LastError = FALSE,
                                              !.LastAction = "scale up"]
                      /\ tk' = [tk EXCEPT !["loop"] =
                                  [Begin("scale", target, "sc_count") EXCEPT !.target = target]]
                 ELSE /\ ctrl' = [ctrl EXCEPT !.Actual = actual, !.LastError = FALSE,
                                              !.LastAction = "noop"]
                      /\ tk' = [tk EXCEPT !["loop"] = [Idle EXCEPT !.pc = "tick_lb"]]
    /\ UNCHANGED <<cloud, ledger, backends, lbInfo, metrics, queue, cfg, file, env>>

\* what the tick notes of the Scale it called
ScaleOutcome(res) == IF res = "err" THEN <<<<"scale-failed", 0>>>> ELSE <<>>

TickScaleReturnSkipsLB ==
    /\ tk["loop"].pc = "ret"
    /\ tk["loop"].op = "scale"
    /\ ctrl' = IF tk["loop"].res = "err" THEN [ctrl EXCEPT !.LastError = TRUE] ELSE ctrl
    /\ tk' = [tk EXCEPT !["loop"] =
                [Idle EXCEPT !.pc = IF tk["loop"].res = "err" THEN "tick_start" ELSE "tick_lb",
                             !.log = ScaleOutcome(tk["loop"].res)]]
    /\ UNCHANGED <<cloud, ledger, backends, lbInfo, metrics, queue, cfg, file, env>>

\* Scale(target) has returned to the loop: a failure is recorded in LastError
\* (and, for the properties, in the log the tick carries to its end)
TickScaleReturn ==
    /\ tk["loop"].pc = "ret"
    /\ tk["loop"].op = "scale"
    /\ ctrl' = IF tk["loop"].res = "err" THEN [ctrl EXCEPT !.LastError = TRUE] ELSE ctrl
    /\ tk' = [tk EXCEPT !["loop"] = [Idle EXCEPT !.pc = "tick_lb",
                                                 !.log = ScaleOutcome(tk["loop"].res)]]
    /\ UNCHANGED <<cloud, ledger, backends, lbInfo, metrics, queue, cfg, file, env>>

\* LastAction = "lb-reconcile"; ReconcileLoadBalancer is called
TickLB ==
    /\ tk["loop"].pc = "tick_lb"
    /\ ctrl' = [ctrl EXCEPT !.LastAction = "lb-reconcile"]
    /\ tk' = [tk EXCEPT !["loop"] = [Begin("lb-reconcile", 0, "lb_start")
                                        EXCEPT !.log = tk["loop"].log]]
    /\ env' = [env EXCEPT !.lbCalls = @ + 1]
    /\ UNCHANGED <<cloud, ledger, backends, lbInfo, metrics, queue, cfg, file>>

\* ReconcileLoadBalancer has returned: LastError is set or cleared; <-ticker.C
TickLBReturn ==
    /\ tk["loop"].pc = "ret"
    /\ tk["loop"].op = "lb-reconcile"
    /\ ctrl' = [ctrl EXCEPT !.LastError = (tk["loop"].res = "err")]
    /\ tk' = [tk EXCEPT !["loop"] = [Idle EXCEPT !.pc = "tick_start"]]
    /\ UNCHANGED <<cloud, ledger, backends, lbInfo, metrics, queue, cfg, file, env>>

\* ------------------------------------------------------------- environment
\* somebody edits the configuration file: a new declared total, or a
\* document that does not parse
EditConfig ==
    /\ env.edits < MaxEdits
    /\ \E insts \in InstanceLists, ok \in BOOLEAN :
         file' = [mod |-> TRUE, ok |-> ok, instances |-> insts]
    /\ env' = [env EXCEPT !.edits = @ + 1]
    /\ UNCHANGED <<cloud, ledger, backends, lbInfo, metrics, queue, cfg, ctrl, tk>>

\* the wall clock advances
ClockTick ==
    /\ env.now < MaxClock
    /\ env' = [env EXCEPT !.now = @ + 1]
    /\ UNCHANGED <<cloud, ledger, backends, lbInfo, metrics, queue, cfg, file, ctrl, tk>>

\* The queue functions applied to the register from outside any handler:
\* env.q0 is the queue before the append (of a pop that follows the append of
\* the same total) or before the pop; env.prev names the call.
QueueAppend ==
    /\ Len(queue) < MaxQueue
    /\ \E x \in 0..MaxDesired :
         /\ queue' = AppendScaleQueue(queue, x)
         /\ env' = [env EXCEPT !.q0 = queue,
                               !.prev = [op |-> "append", desired |-> x, res |-> "ok"]]
    /\ UNCHANGED <<cloud, ledger, backends, lbInfo, metrics, cfg, file, ctrl, tk>>

QueuePop ==
    /\ \E y \in 0..MaxDesired :
         /\ queue' = PopScaleQueueIfHead(queue, y)
         /\ env' = IF env.prev.op = "append" /\ env.prev.desired = y
                   THEN [env EXCEPT !.prev = [op |-> "append-pop", desired |-> y, res |-> "ok"]]
                   ELSE [env EXCEPT !.q0 = queue,
                                    !.prev = [op |-> "pop", desired |-> y, res |-> "ok"]]
    /\ UNCHANGED <<cloud, ledger, backends, lbInfo, metrics, cfg, file, ctrl, tk>>

\* The ledger functions applied to the store file from outside any operation,
\* by the goroutine h1, whose locals keep the call: op names the function,
\* todo is the id set given to MarkTerminatedByIDs, desired the number given
\* to ActiveRecordsLIFO and ids what it returned.  The cloud hands out
\* identifiers in ascending order, so a record is appended after records of
\* smaller ids.
LedgerAdd ==
    /\ \E id \in Ids :
         /\ \A i \in DOMAIN ledger : ledger[i].id < id
         /\ ledger' = AddActiveRecord(ledger, id)
    /\ tk' = [tk EXCEPT !["h1"] = [Idle EXCEPT !.op = "add"]]
    /\ UNCHANGED <<cloud, backends, lbInfo, metrics, queue, cfg, file, ctrl, env>>

LedgerMark ==
    /\ \E S \in SUBSET Ids :
         /\ ledger' = MarkTerminatedByIDs(ledger, S)
         /\ tk' = [tk EXCEPT !["h1"] = [Idle EXCEPT !.op = "mark", !.todo = S]]
    /\ UNCHANGED <<cloud, backends, lbInfo, metrics, queue, cfg, file, ctrl, env>>

LedgerSelect ==
    /\ \E n \in 0..MaxIds :
         tk' = [tk EXCEPT !["h1"] = [Idle EXCEPT !.op = "select", !.desired = n,
                                                 !.ids = ActiveRecordsLIFO(ledger, n)]]
    /\ UNCHANGED <<cloud, ledger, backends, lbInfo, metrics, queue, cfg, file, ctrl, env>>

\* ------------------------------------------------------ Store.load / save
\* The store calls above are one critical section each.  Here a call is
\* followed through its file operations, for a process that may crash
\* between them: ledger is what the state file holds when env.path is not
\* "missing", and env.tmp is the sibling temp file.  doc is the root document
\* the call saves, was the one it loaded, got what a restart loads.
NoFile == [present |-> FALSE, recs |-> <<>>, whole |-> FALSE]

\* os.ReadFile(s.path): a missing file is an initialized root, a document
\* that does not parse is an error
Load(path, l) ==
    IF path = "missing" THEN [res |-> "ok", doc |-> <<>>]
    ELSE IF path = "whole" THEN [res |-> "ok", doc |-> l]
    ELSE [res |-> "err", doc |-> <<>>]

\* a mutating store call loads the root and changes it: a record is
\* appended, or records are marked Terminated
SaveBegin(p) ==
    /\ tk[p].pc = "idle"
    /\ Load(env.path, ledger).res = "ok"
    /\ LET cur == Load(env.path, ledger).doc
       IN \E new \in {AddActiveRecord(cur, id) :
                         id \in {x \in Ids : \A i \in DOMAIN cur : cur[i].id < x}}
                     \cup {MarkTerminatedByIDs(cur, S) : S \in SUBSET ActiveIds(cur)} :
            tk' = [tk EXCEPT ![p] = [Idle EXCEPT !.pc = "save_write", !.op = "save",
                                                 !.was = cur, !.doc = new]]
    /\ UNCHANGED <<cloud, ledger, backends, lbInfo, metrics, queue, cfg, file, ctrl, env>>

SaveWriteUnchecked(p) ==
    /\ tk[p].pc = "save_write"
    /\ \E k \in 0..Len(tk[p].doc) :
         env' = [env EXCEPT !.tmp = [present |-> TRUE, recs |-> SubSeq(tk[p].doc, 1, k),
                                     whole |-> FALSE]]
    /\ tk' = [tk EXCEPT ![p].pc = "save_rename"]
    /\ UNCHANGED <<cloud, ledger, backends, lbInfo, metrics, queue, cfg, file, ctrl>>

\* os.WriteFile(tmp, data): the temp file is truncated and the document is
\* written to it piece after piece; save goes on to the rename when all of it
\* is written
SaveWrite(p) ==
    /\ tk[p].pc = "save_write"
    /\ \/ /\ \E k \in 0..Len(tk[p].doc) :
               env' = [env EXCEPT !.tmp = [present |-> TRUE,
                                           recs |-> SubSeq(tk[p].doc, 1, k),
                                           whole |-> FALSE]]
          /\ UNCHANGED tk
       \/ /\ env' = [env EXCEPT !.tmp = [present |-> TRUE, recs |-> tk[p].doc,
                                         whole |-> TRUE]]
          /\ tk' = [tk EXCEPT ![p].pc = "save_rename"]
    /\ UNCHANGED <<cloud, ledger, backends, lbInfo, metrics, queue, cfg, file, ctrl>>

\* os.Rename(tmp, s.path): the state file becomes what the temp file held
SaveRename(p) ==
    /\ tk[p].pc = "save_rename"
    /\ env.tmp.present
    /\ ledger' = env.tmp.recs
    /\ env' = [env EXCEPT !.path = IF env.tmp.whole THEN "whole" ELSE "partial",
                          !.tmp = NoFile]
    /\ tk' = [tk EXCEPT ![p] = [Idle EXCEPT !.op = "save", !.res = "ok"]]
    /\ UNCHANGED <<cloud, backends, lbInfo, metrics, queue, cfg, file, ctrl>>

\* the process dies during a save; the files stay as they are
Crash(p) ==
    /\ tk[p].pc \in {"save_write", "save_rename"}
    /\ tk' = [tk EXCEPT ![p] = [Idle EXCEPT !.pc = "down", !.op = "save",
                                            !.was = tk[p].was, !.doc = tk[p].doc]]
    /\ UNCHANGED <<cloud, ledger, backends, lbInfo, metrics, queue, cfg, file, ctrl, env>>

\* the process starts again and loads the ledger
Restart(p) ==
    /\ tk[p].pc = "down"
    /\ LET r == Load(env.path, ledger)
       IN tk' = [tk EXCEPT ![p] = [Idle EXCEPT !.op = "load", !.res = r.res, !.got = r.doc,
                                               !.was = tk[p].was, !.doc = tk[p].doc]]
    /\ UNCHANGED <<cloud, ledger, backends, lbInfo, metrics, queue, cfg, file, ctrl, env>>

\* ------------------------------------------- the store under its mutex
\* n Active records appended to the fleet's instances
AddActiveInstances(l, n) == l \o [i \in 1..n |-> Rec(Len(l) + i)]

\* up to n Active records marked Terminated, from the end of the list
RemoveActiveInstances(l, n) ==
    LET act == {i \in DOMAIN l : l[i].st = "Active"}
        sel == {i \in act : Cardinality({j \in act : j > i}) < n}
    IN [i \in DOMAIN l |-> IF i \in sel THEN [l[i] EXCEPT !.st = "Terminated", !.at = Now]
                           ELSE l[i]]

StoreLockUnguarded(p) ==
    /\ tk[p].pc = "idle"
    /\ \E o \in {"add", "remove", "count"}, n \in 1..2 :
         /\ (o = "add") => Len(ledger) + n <= MaxIds
         /\ (o = "count") => n = 1
         /\ tk' = [tk EXCEPT ![p].pc = "st_load", ![p].op = o, ![p].desired = n]
    /\ env' = [env EXCEPT !.mu = p]
    /\ UNCHANGED <<cloud, ledger, backends, lbInfo, metrics, queue, cfg, file, ctrl>>

\* a goroutine calls AddActiveInstances(n), RemoveActiveInstances(n) or
\* CountActive: s.mu.Lock() returns when no other goroutine holds the mutex.
\* In tk[p], i and nt count the records the calls of p that have returned
\* added and marked Terminated.
StoreLock(p) ==
    /\ tk[p].pc = "idle"
    /\ env.mu = "none"
    /\ \E o \in {"add", "remove", "count"}, n \in 1..2 :
         /\ (o = "add") => Len(ledger) + n <= MaxIds
         /\ (o = "count") => n = 1
         /\ tk' = [tk EXCEPT ![p].pc = "st_load", ![p].op = o, ![p].desired = n]
    /\ env' = [env EXCEPT !.mu = p]
    /\ UNCHANGED <<cloud, ledger, backends, lbInfo, metrics, queue, cfg, file, ctrl>>

\* s.load() and the change of the loaded root; CountActive counts, unlocks
\* and returns
StoreLoad(p) ==
    /\ tk[p].pc = "st_load"
    /\ LET cur == Load(env.path, ledger).doc
       IN IF tk[p].op = "count"
          THEN /\ tk' = [tk EXCEPT ![p].pc = "idle", ![p].op = "none", ![p].desired = 0,
                                   ![p].current = CountActive(cur)]
               /\ env' = [env EXCEPT !.mu = "none"]
          ELSE /\ tk' = [tk EXCEPT ![p].pc = "st_write", ![p].was = cur,
                                   ![p].doc = IF tk[p].op = "add"
                                              THEN AddActiveInstances(cur, tk[p].desired)
                                              ELSE RemoveActiveInstances(cur, tk[p].desired)]
               /\ UNCHANGED env
    /\ UNCHANGED <<cloud, ledger, backends, lbInfo, metrics, queue, cfg, file, ctrl>>

\* save: os.WriteFile(tmp, data)
StoreWrite(p) ==
    /\ tk[p].pc = "st_write"
    /\ env' = [env EXCEPT !.tmp = [present |-> TRUE, recs |-> tk[p].doc, whole |-> TRUE]]
    /\ tk' = [tk EXCEPT ![p].pc = "st_rename"]
    /\ UNCHANGED <<cloud, ledger, backends, lbInfo, metrics, queue, cfg, file, ctrl>>

\* save: os.Rename(tmp, s.path); the deferred s.mu.Unlock(); the call returns
StoreRename(p) ==
    /\ tk[p].pc = "st_rename"
    /\ env.tmp.present
    /\ ledger' = env.tmp.recs
    /\ env' = [env EXCEPT !.path = "whole", !.tmp = NoFile, !.mu = "none"]
    /\ tk' = [tk EXCEPT ![p].pc = "idle", ![p].op = "none", ![p].desired = 0,
                        ![p].i = @ + (Len(tk[p].doc) - Len(tk[p].was)),
                        ![p].nt = @ + (CountActive(tk[p].was) + Len(tk[p].doc)
                                       - Len(tk[p].was) - CountActive(tk[p].doc)),
                        ![p].was = <<>>, ![p].doc = <<>>]
    /\ UNCHANGED <<cloud, backends, lbInfo, metrics, queue, cfg, file, ctrl>>

\* ------------------------------------------------------------ initial state
\* r instances are live and tagged; the ledger holds l Active records, of
\* ids 1..l: when l > r the instances r+1..l were terminated outside the
\* controller, when l < r the instances l+1..r are not in the ledger.
InitWith(RL, D, LB, PL) ==
    \E rl \in RL, d \in D, lb \in LB, pl \in PL :
     LET r == rl[1]
         l == rl[2]
     IN
       /\ env = [reqs |-> 0, edits |-> 0, r0 |-> r, l0 |-> l, prev |-> NoPrev,
                 now |-> 0, q0 |-> <<>>, lbCalls |-> 0,
                 path |-> IF l = 0 THEN "missing" ELSE "whole", tmp |-> NoFile,
                 mu |-> "none"]
       /\ cloud = [i \in Ids |-> IF i <= r THEN "RUNNING"
                                 ELSE IF i <= l THEN "TERMINATED" ELSE "NONE"]
       /\ ledger = [i \in 1..l |-> Rec(i)]
       /\ backends = IF lb THEN 1..r ELSE {}
       /\ lbInfo = [present |-> FALSE, count |-> 0]
       /\ metrics = MetricsZero
       /\ queue = <<>>
       /\ cfg = [instances |-> d, parLaunch |-> pl, parTerminate |-> pl, lbEnabled |-> lb]
       /\ file = [mod |-> TRUE, ok |-> TRUE, instances |-> d]
       /\ ctrl = [Desired |-> 0, Actual |-> 0, LastAction |-> "", LastError |-> FALSE,
                  LoopCount |-> 0]
       /\ tk = [p \in Procs |-> IF p = "loop" THEN [Idle EXCEPT !.pc = "tick_start"] ELSE Idle]

Counts == 0..MaxInit

Init == InitWith(Counts \X Counts, InstanceLists, BOOLEAN, {0, 1})

\* ------------------------------------------------------------------- steps
ScaleStep(p) ==
    \/ ScaleCount(p) \/ ScalePlan(p)
    \/ ScaleUpReset(p) \/ ScaleUpBegin(p) \/ LaunchStart(p) \/ LaunchFinish(p)
    \/ ScaleUpResult(p) \/ ScaleUpLB(p)
    \/ ScaleDownSelect(p) \/ ScaleDownLB(p) \/ ScaleDownReset(p) \/ ScaleDownBegin(p)
    \/ TermStart(p) \/ TermFinish(p) \/ ScaleDownMark(p)
    \/ Verify(p) \/ SyncList(p) \/ SyncReset(p) \/ ScaleDone(p)

RRStep(p) ==
    \/ RRCount(p) \/ RRSelect(p) \/ RRReset(p) \/ RRUnit(p) \/ RRTerminate(p)
    \/ RRTermWait(p) \/ RRMark(p) \/ RRLaunch(p) \/ RRLaunchWait(p) \/ RRAdd(p)
    \/ RRFinish(p)

LBStep(p) == LBStart(p) \/ LBList(p) \/ LBApply(p)

TickStep ==
    \/ TickStart \/ TickSwap \/ TickTarget \/ TickList \/ TickScaleReturn \/ TickLB \/ TickLBReturn

HttpStep(p) ==
    \/ HttpScale(p) \/ HttpRollingRestart(p) \/ HttpSyncState(p) \/ HttpReturn(p)

Next ==
    \/ \E p \in Procs : ScaleStep(p) \/ RRStep(p) \/ LBStep(p)
    \/ \E p \in {"h1", "h2"} : HttpStep(p)
    \/ TickStep
    \/ EditConfig

Spec == Init /\ [][Next]_vars

\* One goroutine serves the HTTP requests one after the other; no control loop.
InitSeq == InitWith(Counts \X Counts, {<<>>}, BOOLEAN, {0, 1})

NextSeq == HttpStep("h1") \/ ScaleStep("h1") \/ RRStep("h1")

SpecSeq == InitSeq /\ [][NextSeq]_vars

\* Two HTTP requests are served concurrently; the ledger starts consistent
\* with the cloud; no control loop.
InitConc == InitWith({<<n, n>> : n \in Counts}, {<<>>}, {FALSE}, {0})

NextConc == \E p \in {"h1", "h2"} : HttpStep(p) \/ ScaleStep(p) \/ RRStep(p)

SpecConc == InitConc /\ [][NextConc]_vars

\* The control loop runs beside one goroutine serving one POST /scale.
InitLoop ==
    InitWith({<<n, n>> : n \in Counts}, {<<InstanceSpec("", n)>> : n \in 1..MaxDesired},
             {FALSE}, {0})

NextLoop ==
    \/ (ctrl.LoopCount < LoopTicks /\ TickStart)
    \/ TickSwap \/ TickTarget \/ TickList \/ TickScaleReturn \/ TickLB \/ TickLBReturn
    \/ \E p \in {"loop", "h1"} : ScaleStep(p)
    \/ LBStart("loop")
    \/ (env.reqs < LoopReqs /\ HttpScale("h1"))
    \/ HttpReturn("h1")

SpecLoop == InitLoop /\ [][NextLoop]_vars

\* The control loop runs alone, with no load balancer; the configuration file
\* is edited.  A Scale the loop calls alone never scales down.  The file is
\* read only by the reload at the start of a tick, so an edit at any other
\* moment is the same edit made while the loop waits for its ticker.
ScaleUpStep(p) ==
    \/ ScaleCount(p) \/ ScalePlan(p)
    \/ ScaleUpReset(p) \/ ScaleUpBegin(p) \/ LaunchStart(p) \/ LaunchFinish(p)
    \/ ScaleUpResult(p) \/ ScaleUpLB(p)
    \/ Verify(p) \/ ScaleDone(p)

InitTick == InitWith(Counts \X Counts, InstanceLists, {FALSE}, {0})

NextTick ==
    \/ TickStep
    \/ ScaleUpStep("loop")
    \/ SyncList("loop") \/ SyncReset("loop")
    \/ LBStart("loop")
    \/ (tk["loop"].pc = "tick_start" /\ EditConfig)

SpecTick == InitTick /\ [][NextTick]_vars

\* One goroutine serves a POST /scale and then POST /sync-state requests, or
\* POST /sync-state requests only, one after the other while the wall clock
\* advances; no load balancer.
InitSync == InitWith(Counts \X Counts, {<<>>}, {FALSE}, {0})

NextSync ==
    \/ (env.reqs = 0 /\ HttpScale("h1"))
    \/ HttpSyncState("h1") \/ HttpReturn("h1")
    \/ ScaleStep("h1")
    \/ ClockTick

SpecSync == InitSync /\ [][NextSync]_vars

\* One operation, a Scale or a RollingRestart, runs alone.
InitOne == InitWith(Counts \X Counts, {<<>>}, BOOLEAN, {0, 1})

NextOne ==
    \/ (env.reqs = 0 /\ (HttpScale("h1") \/ HttpRollingRestart("h1")))
    \/ ScaleStep("h1") \/ RRStep("h1")
    \/ HttpReturn("h1")

SpecOne == InitOne /\ [][NextOne]_vars

\* A rolling restart is served on h1; a POST /scale request arrives on h2
\* after it began.
NextAccept ==
    \/ (env.reqs = 0 /\ HttpRollingRestart("h1"))
    \/ RRStep("h1")
    \/ (env.reqs = 1 /\ HttpScale("h2"))
    \/ ScaleStep("h2")
    \/ HttpReturn("h1") \/ HttpReturn("h2")

SpecAccept == InitConc /\ [][NextAccept]_vars

\* The pending scale queue under arbitrary appends and pops.
InitQueue == InitWith({<<0, 0>>}, {<<>>}, {FALSE}, {0})

NextQueue == QueueAppend \/ QueuePop

SpecQueue == InitQueue /\ [][NextQueue]_vars

\* The control loop makes one tick with the load balancer enabled, before or
\* after one POST /scale is served to its end: an operation and a tick do not
\* overlap.
InitRecon == InitWith(Counts \X Counts, {<<>>}, {TRUE}, {0})

NextRecon ==
    \/ (tk["loop"].pc = "tick_start" /\ env.reqs = 0 /\ HttpScale("h1"))
    \/ ScaleStep("h1") \/ HttpReturn("h1")
    \/ (tk["h1"].pc = "idle" /\ ctrl.LoopCount = 0 /\ TickStart)
    \/ TickSwap \/ TickTarget \/ TickList \/ TickScaleReturn \/ TickLB \/ TickLBReturn
    \/ ScaleUpStep("loop") \/ SyncList("loop") \/ SyncReset("loop")
    \/ LBStep("loop")

SpecRecon == InitRecon /\ [][NextRecon]_vars

\* The ledger under arbitrary appends, marks and selections.
NextLedger == LedgerAdd \/ LedgerMark \/ LedgerSelect

SpecLedger == InitQueue /\ [][NextLedger]_vars

\* One process changes the ledger, call after call, and may crash during any
\* save and start again; the state file does not exist at first.
NextCrash ==
    \/ SaveBegin("h1") \/ SaveWrite("h1") \/ SaveRename("h1")
    \/ Crash("h1") \/ Restart("h1")

SpecCrash == InitQueue /\ [][NextCrash]_vars

\* ================================================================ properties
Live == {i \in Ids : cloud[i] \in {"RUNNING", "PROVISIONING"}}

\* the goroutine is inside Scale, RollingRestart or SyncState
InEngine(p) ==
    /\ tk[p].op \in {"scale", "rolling-restart", "sync-state"}
    /\ tk[p].pc \notin {"idle", "ret"}

\* C1: at most one mutating engine operation executes at any instant; an
\* operation started by an HTTP request and one started by the control loop
\* never overlap.
C1_OneOperationAtATime == Cardinality({p \in Procs : InEngine(p)}) <= 1

\* C2: two concurrent Scale(d) calls, started with r < d live instances and a
\* consistent ledger, together launch no more than d - r instances; when both
\* succeed they launch exactly d - r and one of them launches and terminates
\* nothing.
C2_ConcurrentScalesAreSerial ==
    LET a == tk["h1"]
        b == tk["h2"]
    IN (/\ a.pc = "ret" /\ a.op = "scale"
        /\ b.pc = "ret" /\ b.op = "scale"
        /\ a.desired = b.desired
        /\ env.r0 < a.desired)
       => /\ Cardinality(a.made) + Cardinality(b.made) <= a.desired - env.r0
          /\ (a.res = "ok" /\ b.res = "ok")
                => /\ Cardinality(a.made) + Cardinality(b.made) = a.desired - env.r0
                   /\ \E t \in {a, b} : t.made = {} /\ t.nt = 0

\* C3: whenever Scale(d) returns success the cloud holds exactly d fleet
\* instances that are not terminated, whatever the ledger recorded and
\* whether or not the planning list call failed.
C3_SuccessMeansDesiredCount ==
    \A p \in Procs :
        (tk[p].pc = "ret" /\ tk[p].op = "scale" /\ tk[p].res = "ok")
            => Cardinality(Listed(cloud)) = tk[p].desired

\* C4: the control loop never calls Scale(t) with t below the ledger's
\* CountActive at the moment that Scale starts, so a Scale of the loop never
\* selects an instance for termination.
C4_LoopNeverScalesDown ==
    LET t == tk["loop"]
    IN t.op = "scale"
          => /\ (t.pc # "sc_count") => t.desired >= t.current
             /\ t.ids = <<>>
             /\ t.nt = 0

C7_RollingRestartKeepsCapacity ==
    \A p \in Procs :
        (tk[p].op = "rolling-restart" /\ tk[p].cons /\ tk[p].pc \notin {"idle", "ret"})
            => Cardinality(Live) >= tk[p].current - 1

\* C8: after a successful RollingRestart of n Active instances that started
\* with a consistent ledger, CountActive is n, every instance of before was
\* terminated exactly once and is recorded Terminated, and the Active
\* records carry new ids.
C8_RollingRestartReplacesAll ==
    \A p \in Procs :
        (/\ tk[p].pc = "ret" /\ tk[p].op = "rolling-restart"
         /\ tk[p].res = "ok" /\ tk[p].cons)
            => /\ CountActive(ledger) = tk[p].current
               /\ tk[p].nt = tk[p].current
               /\ \A id \in Range(tk[p].ids) :
                     /\ cloud[id] = "TERMINATED"
                     /\ \E i \in DOMAIN ledger :
                           ledger[i].id = id /\ ledger[i].st = "Terminated"
               /\ ActiveIds(ledger) \cap Range(tk[p].ids) = {}

\* C9: when a scale-up returns an error, every instance it launched has an
\* Active record in the ledger, in whatever order the workers delivered
\* their results.
C9_LaunchedInstancesRecorded ==
    \A p \in Procs :
        (tk[p].pc = "ret" /\ tk[p].op = "scale" /\ tk[p].res = "err")
            => tk[p].made \subseteq ActiveIds(ledger)

\* C10: a Scale(d) that follows a successful Scale(d), with nothing else in
\* between, launches nothing, terminates nothing and returns success.
C10_RepeatedScaleIsNoOp ==
    \A p \in Procs :
        (/\ tk[p].pc = "ret" /\ tk[p].op = "scale"
         /\ env.prev = [op |-> "scale", desired |-> tk[p].desired, res |-> "ok"])
            => /\ tk[p].res = "ok"
               /\ tk[p].made = {}
               /\ tk[p].nt = 0

\* the records of l without their timestamps
Untimed(l) == [i \in DOMAIN l |-> [id |-> l[i].id, st |-> l[i].st]]

\* the step in which a SyncState called by POST /sync-state returns success,
\* the request before it having been a successful SyncState too
SecondSyncReturns(p) ==
    /\ tk[p].op = "sync-state" /\ tk[p].pc = "sy_reset"
    /\ tk'[p].pc = "ret" /\ tk'[p].res = "ok"
    /\ env.prev = [op |-> "sync-state", desired |-> 0, res |-> "ok"]

\* C11 as stated: a SyncState that follows a successful SyncState, the cloud
\* unchanged in between, leaves the ledger's record sequence as the first
\* run left it.
C11_SecondSyncLeavesLedger ==
    [][\A p \in Procs : SecondSyncReturns(p) => ledger' = ledger]_vars

\* C11 amended: a SyncState that follows a successful SyncState, the cloud
\* unchanged in between, leaves the same records in the same order, with the
\* same identifiers and statuses; their timestamps are those of the second run.
C11_SecondSyncLeavesRecords ==
    [][\A p \in Procs :
         SecondSyncReturns(p)
            => /\ Untimed(ledger') = Untimed(ledger)
               /\ \A i \in DOMAIN ledger' : ledger'[i].at = Now]_vars

C11_SecondSyncReturned ==
    /\ tk["h1"].pc = "ret" /\ tk["h1"].op = "sync-state" /\ tk["h1"].res = "ok"
    /\ env.prev = [op |-> "sync-state", desired |-> 0, res |-> "ok"]
    /\ ledger # <<>>
    /\ \A i \in DOMAIN ledger : ledger[i].at > 0

\* the tagged instances of the cloud that are not terminated
NonTerminated == {i \in Ids : cloud[i] \in {"PROVISIONING", "RUNNING", "TERMINATING"}}

\* C12: a SyncState launches nothing, terminates nothing and changes no
\* backend; when it returns success the ledger holds exactly one Active
\* record per non-terminated tagged instance and nothing else, so CountActive
\* is the listed count.
C12_SyncRebuildsLedgerOnly ==
    [][\A p \in Procs :
         (/\ tk[p].op = "sync-state"
          /\ tk[p].pc \in {"sy_list", "sy_reset"}
          /\ tk'[p] # tk[p])
            => /\ cloud' = cloud /\ backends' = backends /\ lbInfo' = lbInfo
               /\ (tk'[p].pc = "ret" /\ tk'[p].res = "ok")
                    => /\ Len(ledger') = Cardinality(NonTerminated)
                       /\ {ledger'[i].id : i \in DOMAIN ledger'} = NonTerminated
                       /\ \A i \in DOMAIN ledger' : ledger'[i].st = "Active"
                       /\ CountActive(ledger') = Cardinality(NonTerminated)]_vars

C12_SyncDroppedStaleRecords ==
    /\ tk["h1"].pc = "ret" /\ tk["h1"].op = "sync-state" /\ tk["h1"].res = "ok"
    /\ env.reqs = 1
    /\ env.l0 > env.r0 /\ env.r0 > 0
    /\ Len(ledger) = env.r0

\* C13: the LaunchInstances calls in flight during a scale-up never number
\* more than scaling.parallelLaunch (5 when that is <= 0), and the
\* TerminateInstances calls in flight during a scale-down never more than
\* scaling.parallelTerminate (10 when that is <= 0).
C13_WorkersWithinPool ==
    \A p \in Procs :
        /\ (tk[p].pc = "su_workers")
              => Cardinality(tk[p].inflight)
                    <= (IF cfg.parLaunch <= 0 THEN DefaultParallelLaunch ELSE cfg.parLaunch)
        /\ (tk[p].pc = "sd_workers")
              => Cardinality(tk[p].inflight)
                    <= (IF cfg.parTerminate <= 0 THEN DefaultParallelTerminate
                        ELSE cfg.parTerminate)

C13_WorkerWaitsForSlot ==
    /\ cfg.parLaunch = 1
    /\ tk["h1"].pc = "su_workers"
    /\ tk["h1"].waiting > 0
    /\ Cardinality(tk["h1"].inflight) = 1

\* the steps of one unit of a rolling restart; the load-balancer steps are
\* made when the load balancer is enabled and was ensured
UnitSteps(lb) ==
    IF lb THEN <<"lb-remove", "terminate", "mark", "launch", "append", "lb-add">>
    ELSE <<"terminate", "mark", "launch", "append">>

\* C14: the steps of a rolling restart are, unit after unit, LB-remove,
\* terminate, ledger mark, launch, ledger append, LB-add, and every step of
\* unit i is made before the first step of unit i+1.
C14_RollingRestartStepOrder ==
    \A p \in Procs :
        (tk[p].op = "rolling-restart" /\ tk[p].pc \notin {"idle", "ret"})
            => LET U == UnitSteps(tk[p].lbOn)
               IN \A j \in DOMAIN tk[p].log :
                     tk[p].log[j] = <<U[((j - 1) % Len(U)) + 1], ((j - 1) \div Len(U)) + 1>>

C14_TwoUnitsRestartedBehindLB ==
    /\ tk["h1"].op = "rolling-restart"
    /\ tk["h1"].pc = "rr_finish"
    /\ tk["h1"].lbOn
    /\ Len(tk["h1"].log) = 12

\* C15: in a scale-down with the load balancer enabled every backend removal
\* of a selected instance is attempted before the first TerminateInstances
\* call: the removals (or the failed Ensure that skips them) come first in
\* the operation's calls and none follows a terminate.
C15_DeregisterBeforeTerminate ==
    \A p \in Procs :
        (tk[p].op = "scale" /\ tk[p].pc \in {"sd_reset", "sd_begin", "sd_workers"})
            => LET log == tk[p].log
                   ids == tk[p].ids
                   IsLB(j) == log[j][1] \in {"lb-remove", "lb-ensure-failed"}
               IN /\ \A j, k \in DOMAIN log :
                        (IsLB(j) /\ log[k][1] = "terminate") => j < k
                  /\ (cfg.lbEnabled /\ ids # <<>>)
                        => \/ log # <<>> /\ log[1] = <<"lb-ensure-failed", 0>>
                           \/ /\ Len(log) >= Len(ids)
                              /\ \A k \in DOMAIN ids : log[k] = <<"lb-remove", ids[k]>>

C15_TerminatingAfterDeregistering ==
    /\ cfg.lbEnabled
    /\ tk["h1"].pc = "sd_workers"
    /\ Len(tk["h1"].ids) = 2
    /\ Len(tk["h1"].log) >= 3
    /\ tk["h1"].log[3] = <<"terminate", 0>>

\* C16: while an operation is active the metrics register has
\* launchRequested >= launchSucceeded + launchFailed and
\* terminateRequested >= terminateSucceeded + terminateFailed.
C16_RequestedCoversOutcomes ==
    (metrics.op # "")
        => /\ metrics.lr >= metrics.ls + metrics.lf
           /\ metrics.tr >= metrics.ts + metrics.tf

C18_QueueDrainsWhenScalesBegin ==
    (\A p \in {"h1", "h2"} : ~(tk[p].op = "scale" /\ tk[p].pc = "sc_count"))
        => queue = <<>>

\* C19: a valid POST /scale is answered 202 without waiting for any running
\* operation: the request is accepted while a rolling restart is in progress,
\* and the Scale it starts runs on a goroutine of its own with the answer
\* already given.
C19_ScaleAcceptedWithoutWaiting ==
    /\ \A p \in {"h1", "h2"} :
          (tk[p].op = "scale" /\ tk[p].pc # "idle") => tk[p].resp = "202"
    /\ (/\ tk["h1"].op = "rolling-restart" /\ tk["h1"].pc # "idle"
        /\ tk["h2"].pc = "idle" /\ env.reqs = 1)
          => ENABLED HttpScale("h2")

C19_AcceptedDuringRollingRestart ==
    /\ tk["h1"].op = "rolling-restart"
    /\ tk["h1"].pc = "rr_termwait"
    /\ tk["h2"].op = "scale"
    /\ tk["h2"].pc = "sc_count"
    /\ tk["h2"].resp = "202"

\* C20: every tick of the control loop calls ReconcileLoadBalancer exactly
\* once, after its scale decision, whether Scale was called, was skipped or
\* failed, or the list call failed.
C20_OneReconcilePerTick ==
    LET t == tk["loop"]
    IN /\ (t.pc = "tick_start" \/ t.op = "lb-reconcile")
            => env.lbCalls = ctrl.LoopCount
       /\ (t.pc \in {"tick_swap", "tick_target", "tick_list", "tick_lb"} \/ t.op = "scale")
            => env.lbCalls = ctrl.LoopCount - 1

C20_ReconciledAfterFailedScale ==
    /\ tk["loop"].pc = "lb_start"
    /\ ctrl.LoopCount = 1
    /\ env.lbCalls = 1
    /\ ctrl.LastError
    /\ metrics.err

\* C21: with the load balancer enabled, when a ReconcileLoadBalancer in which
\* no adapter call failed returns, the backends are exactly the live tagged
\* instances (stale ones removed, missing ones added) and the backend count
\* in the metrics register and in LBInfo is the size of that set.
C21_ReconcileAlignsBackends ==
    LET t == tk["loop"]
    IN (/\ t.pc = "ret" /\ t.op = "lb-reconcile" /\ t.res = "ok"
        /\ cfg.lbEnabled
        /\ \A j \in DOMAIN t.log : t.log[j][1] # "lb-call-failed")
          => /\ backends = Live
             /\ backends = Listed(cloud)
             /\ metrics.lbOn /\ metrics.lbN = Cardinality(Live)
             /\ lbInfo = [present |-> TRUE, count |-> Cardinality(Live)]

C21_StaleBackendRemoved ==
    /\ tk["loop"].pc = "ret" /\ tk["loop"].op = "lb-reconcile" /\ tk["loop"].res = "ok"
    /\ tk["loop"].log = <<<<"lb-removed", 1>>, <<"lb-added", 0>>>>
    /\ backends # {}


\* the goroutine is where Scale or RollingRestart makes its load-balancer
\* calls (Ensure, primary-IP resolution, AddBackend, RemoveBackend,
\* CountBackends), each of which may fail
AtLBCalls(p) ==
    \/ tk[p].pc \in {"sd_lb", "rr_reset", "rr_unit", "rr_add", "rr_finish"}
    \/ tk[p].pc = "su_workers" /\ WorkersDone(tk[p]) /\ tk[p].resCh = <<>>

\* where the operation goes after the load-balancer calls it makes at t
AfterLBCalls(t) ==
    CASE t.pc = "sd_lb" -> "sd_reset"
      [] t.pc = "su_workers" -> "verify"
      [] t.pc = "rr_reset" -> "rr_unit"
      [] t.pc = "rr_unit" -> "rr_term"
      [] t.pc = "rr_add" -> IF t.i < Len(t.ids) THEN "rr_unit" ELSE "rr_finish"
      [] t.pc = "rr_finish" -> "ret"
      [] OTHER -> "none"

\* C22: whatever load-balancer call fails, Scale and RollingRestart go on to
\* the step that follows the load-balancer calls, without returning an error
\* and with the instances they selected unchanged; a scale-down makes one
\* TerminateInstances call per selected instance and a rolling restart that
\* reaches its end has terminated and launched one instance per record.
C22_LBFailureNeverFatal ==
    [][\A p \in Procs :
         /\ (AtLBCalls(p) /\ tk'[p] # tk[p])
               => /\ tk'[p].pc = AfterLBCalls(tk[p])
                  /\ tk'[p].res # "err"
                  /\ tk'[p].ids = tk[p].ids
                  /\ tk'[p].nt = tk[p].nt /\ tk'[p].made = tk[p].made
                  /\ cloud' = cloud
         /\ (tk'[p].pc = "sd_workers" /\ WorkersDone(tk'[p]))
               => tk'[p].nt = Len(tk'[p].ids)
         /\ (tk'[p].pc = "rr_finish")
               => /\ tk'[p].nt = Len(tk'[p].ids)
                  /\ Cardinality(tk'[p].made) = Len(tk'[p].ids)]_vars

C22_TerminatedAfterFailedEnsure ==
    /\ cfg.lbEnabled
    /\ tk["h1"].op = "scale" /\ tk["h1"].pc = "sd_workers"
    /\ WorkersDone(tk["h1"])
    /\ tk["h1"].log = <<<<"lb-ensure-failed", 0>>, <<"terminate", 0>>, <<"terminate", 0>>>>
    /\ tk["h1"].nt = 2
    /\ tk["h1"].resCh = <<>>

\* C23: after MarkTerminatedByIDs(S) every record whose id is in S is
\* Terminated and no record whose id is outside S has changed in any field;
\* a second MarkTerminatedByIDs(S) with the same S changes no status.
C23_MarkTerminatesExactlyS ==
    [][(tk'["h1"].op = "mark")
         => LET S == tk'["h1"].todo
            IN /\ DOMAIN ledger' = DOMAIN ledger
               /\ \A i \in DOMAIN ledger :
                     /\ ledger'[i].id = ledger[i].id
                     /\ (ledger[i].id \in S) => ledger'[i].st = "Terminated"
                     /\ (ledger[i].id \notin S) => ledger'[i] = ledger[i]
               /\ (tk["h1"].op = "mark" /\ tk["h1"].todo = S)
                     => Untimed(ledger') = Untimed(ledger)]_vars

C23_MarkedTwoOfThree ==
    /\ tk["h1"].op = "mark"
    /\ tk["h1"].todo = {1, 2}
    /\ Len(ledger) = 3
    /\ \E i \in DOMAIN ledger : ledger[i].id = 1 /\ ledger[i].st = "Terminated"
    /\ \E i \in DOMAIN ledger : ledger[i].id = 2 /\ ledger[i].st = "Terminated"
    /\ \E i \in DOMAIN ledger : ledger[i].id = 3 /\ ledger[i].st = "Active"

\* C24: ActiveRecordsLIFO(n) returns at most n records, all of them Active,
\* none twice, and always the first records of one order of the Active
\* records that the ledger content fixes: the sequence a call for all of
\* them returns.
C24_SelectionIsStablePrefix ==
    LET t == tk["h1"]
        all == ActiveRecordsLIFO(ledger, Len(ledger))
    IN (t.op = "select")
          => /\ Len(t.ids) <= t.desired
             /\ Len(t.ids) = IF t.desired < CountActive(ledger) THEN t.desired
                              ELSE CountActive(ledger)
             /\ \A j \in DOMAIN t.ids : t.ids[j] \in ActiveIds(ledger)
             /\ \A j, k \in DOMAIN t.ids : j # k => t.ids[j] # t.ids[k]
             /\ Len(all) = CountActive(ledger)
             /\ t.ids = SubSeq(all, 1, Len(t.ids))
             /\ t.ids = ActiveRecordsLIFO(ledger, t.desired)

C24_SelectedPastTerminated ==
    /\ tk["h1"].op = "select"
    /\ tk["h1"].desired = 2
    /\ Len(ledger) = 4
    /\ ledger[3].st = "Terminated"
    /\ tk["h1"].ids = <<ledger[4].id, ledger[2].id>>

\* the identifiers the ledger l records as Terminated
TerminatedIds(l) == {l[i].id : i \in {j \in DOMAIN l : l[j].st = "Terminated"}}

\* C25: an identifier the ledger records as Terminated is not recorded as
\* Active by the next ledger state, whichever of Scale, RollingRestart and
\* SyncState writes it.
C25_TerminatedNeverActiveAgain ==
    [][TerminatedIds(ledger) \cap ActiveIds(ledger') = {}]_vars

\* C26: the ledger a restart loads after a crash during a save is either the
\* whole document of before the save or the whole document that was being
\* saved, never a partial one, and the load does not fail; a missing state
\* file loads as an empty ledger.
C26_RestartLoadsOldOrNew ==
    LET t == tk["h1"]
    IN /\ (t.op = "load")
            => /\ t.res = "ok"
               /\ t.got \in {t.was, t.doc}
               /\ (env.path = "missing") => t.got = <<>>
       /\ env.path # "partial"

C26_CrashedWhileWritingTemp ==
    /\ tk["h1"].op = "load" /\ tk["h1"].res = "ok"
    /\ env.tmp.present /\ ~env.tmp.whole /\ env.tmp.recs # <<>>
    /\ tk["h1"].got = tk["h1"].was
    /\ tk["h1"].got # tk["h1"].doc
    /\ tk["h1"].got # env.tmp.recs

\* the goroutine's next step reads f.Config: the fleet name and compartment
\* (Scale's count and list, the verification, SyncState's list), the scaling
\* limits, the load-balancer settings
ReadsConfig(t) ==
    \/ t.pc \in {"sc_count", "sc_list", "su_begin", "sd_select", "sd_lb", "sd_begin",
                  "verify", "sy_list", "sy_reset"}
    \/ t.pc = "su_workers" /\ WorkersDone(t) /\ t.resCh = <<>>

\* C27: the control loop replaces the configuration under a lock that
\* excludes the engine operations: no operation running on another goroutine
\* reads the configuration while the loop is replacing it.
C27_ConfigSwapExcludesReaders ==
    [][\A p \in {"h1", "h2"} :
         (tk["loop"].pc = "tick_swap" /\ InEngine(p) /\ ReadsConfig(tk[p]))
            => tk'[p] = tk[p]]_vars

\* the configuration file is newer than the loaded configuration and does
\* not parse
BadFile == file.mod /\ ~file.ok

\* C28: while the configuration file is newer than the loaded configuration
\* but does not parse, a tick leaves the loaded configuration as it is, goes
\* on to compute its target, and publishes the larger of the declared total
\* of that configuration and the ledger's count.
C28_ParseFailureKeepsConfig ==
    [][BadFile
         => /\ cfg' = cfg
            /\ (tk["loop"].pc = "tick_start" /\ tk'["loop"] # tk["loop"])
                  => tk'["loop"].pc = "tick_target"
            /\ (tk["loop"].pc = "tick_target" /\ tk'["loop"] # tk["loop"])
                  => /\ tk'["loop"].pc = "tick_list"
                     /\ ctrl'.Desired = Max(SumCounts(cfg.instances), CountActive(ledger))
                     /\ tk'["loop"].target = ctrl'.Desired]_vars

C28_TargetFromPreviousConfig ==
    /\ BadFile
    /\ tk["loop"].pc = "tick_list"
    /\ ctrl.LoopCount = 2
    /\ SumCounts(file.instances) > SumCounts(cfg.instances)
    /\ SumCounts(cfg.instances) > CountActive(ledger)
    /\ ctrl.Desired = SumCounts(cfg.instances)

\* C29: a tick whose Scale failed ends with LastError set, and the loop goes
\* on to wait for its next tick.
C29_FailedScaleLeavesLastError ==
    [][LET t == tk["loop"]
       IN (/\ t.pc = "ret" /\ t.op = "lb-reconcile"
           /\ \E j \in DOMAIN t.log : t.log[j][1] = "scale-failed"
           /\ tk'["loop"] # t)
             => /\ ctrl'.LastError
                /\ tk'["loop"].pc = "tick_start"]_vars

\* C30: a Scale(d) makes TerminateInstances calls only when d is smaller than
\* the remote count of its planning step; with d >= remote, and so with
\* d = remote and a ledger count other than d, it makes none.
C30_TerminatesOnlyBelowRemote ==
    \A p \in Procs :
        (tk[p].op = "scale" /\ tk[p].pc \in {"sd_workers", "verify"} /\ tk[p].nt > 0)
            => tk[p].desired < tk[p].remote

\* C31: a Scale(d) whose planning step finds the ledger count and the remote
\* count both equal to d returns success with nothing launched and nothing
\* terminated, and the metrics register then shows phase "done" and no
\* operation, whatever it showed before.
C31_NoOpScaleLeavesRegisterDone ==
    [][\A p \in Procs :
         (/\ tk[p].pc = "sc_list" /\ tk'[p].pc = "ret"
          /\ tk[p].desired = tk[p].current)
            => /\ tk'[p].res = "ok" /\ tk'[p].made = {} /\ tk'[p].nt = 0
               /\ cloud' = cloud /\ ledger' = ledger
               /\ metrics'.phase = "done" /\ metrics'.op = ""]_vars

\* ------------------------------------------------- the verify loop in time
\* One iteration of the loop of verifyActualMatches, with the clock: the list
\* call fails, or the count equals desired, or the deadline has passed (the
\* clock has reached MaxClock, the polls the deadline allows), or the
\* goroutine sleeps and the clock advances.
VerifyPollNoDeadline(p) ==
    /\ tk[p].pc = "verify"
    /\ \E listOk \in BOOLEAN :
         IF ~listOk
         THEN /\ metrics' = SetError(metrics)
              /\ tk' = [tk EXCEPT ![p] = Return(tk[p], "err")]
              /\ UNCHANGED env
         ELSE IF Cardinality(Listed(cloud)) = tk[p].desired
         THEN /\ tk' = [tk EXCEPT ![p].pc = "sy_list"]
              /\ UNCHANGED <<metrics, env>>
         ELSE /\ env' = [env EXCEPT !.now = (@ + 1) % (MaxClock + 1)]
              /\ UNCHANGED <<metrics, tk>>
    /\ UNCHANGED <<cloud, ledger, backends, lbInfo, queue, cfg, file, ctrl>>

VerifyPoll(p) ==
    /\ tk[p].pc = "verify"
    /\ \E listOk \in BOOLEAN :
         IF ~listOk
         THEN /\ metrics' = SetError(metrics)
              /\ tk' = [tk EXCEPT ![p] = Return(tk[p], "err")]
              /\ UNCHANGED env
         ELSE IF Cardinality(Listed(cloud)) = tk[p].desired
         THEN /\ tk' = [tk EXCEPT ![p].pc = "sy_list"]
              /\ UNCHANGED <<metrics, env>>
         ELSE IF env.now >= MaxClock
         THEN /\ metrics' = SetError(metrics)
              /\ tk' = [tk EXCEPT ![p] = Return(tk[p], "err")]
              /\ UNCHANGED env
         ELSE /\ env' = [env EXCEPT !.now = @ + 1]
              /\ UNCHANGED <<metrics, tk>>
    /\ UNCHANGED <<cloud, ledger, backends, lbInfo, queue, cfg, file, ctrl>>

\* the steps of one Scale call, the verification poll by poll
ScaleRun(p) ==
    \/ ScaleCount(p) \/ ScalePlan(p)
    \/ ScaleUpReset(p) \/ ScaleUpBegin(p) \/ LaunchStart(p) \/ LaunchFinish(p)
    \/ ScaleUpResult(p) \/ ScaleUpLB(p)
    \/ ScaleDownSelect(p) \/ ScaleDownLB(p) \/ ScaleDownReset(p) \/ ScaleDownBegin(p)
    \/ TermStart(p) \/ TermFinish(p) \/ ScaleDownMark(p)
    \/ VerifyPoll(p) \/ SyncList(p) \/ SyncReset(p) \/ ScaleDone(p)

\* One POST /scale on its goroutine.  The goroutine keeps running and every
\* adapter call it makes returns: weak fairness of its steps.
NextVerify ==
    \/ (env.reqs = 0 /\ HttpScale("h1"))
    \/ ScaleRun("h1")
    \/ HttpReturn("h1")

SpecVerify == InitOne /\ [][NextVerify]_vars /\ WF_vars(ScaleRun("h1"))

\* C32: every Scale call returns; a verification that ends while the count
\* differs from desired (the deadline has passed, or the list call failed)
\* returns an error with the register's last error set, and neither SyncState
\* nor Done has run: the ledger is as it was and the register still names the
\* operation in phase "verify".
C32_ScaleTerminates ==
    /\ (tk["h1"].pc = "sc_count") ~> (tk["h1"].pc = "ret")
    /\ [][(/\ tk["h1"].pc = "verify" /\ tk'["h1"].pc = "ret"
           /\ Cardinality(Listed(cloud)) # tk["h1"].desired)
             => /\ tk'["h1"].res = "err"
                /\ metrics'.err
                /\ ledger' = ledger
                /\ metrics'.op = metrics.op /\ metrics'.op # ""
                /\ metrics'.phase = "verify"]_vars

\* a verification slept until the deadline and gave up
C32_VerifyTimedOut ==
    /\ tk["h1"].pc = "ret" /\ tk["h1"].op = "scale" /\ tk["h1"].res = "err"
    /\ env.now = MaxClock
    /\ metrics.phase = "verify" /\ metrics.err
    /\ Cardinality(Listed(cloud)) # tk["h1"].desired

\* ------------------------------------------------------ the launch group
MaxGroups == 2

GroupNames == {"", "web", "db"}

\* the instances[] lists of up to MaxGroups groups, named or not, of one
\* instance each
NamedLists ==
    UNION {[1..k -> {InstanceSpec(n, 1) : n \in GroupNames}] : k \in 0..MaxGroups}

InitGroup == InitWith(Counts \X Counts, NamedLists, {FALSE}, {0})

\* One POST /scale under a configuration whose groups may be named.
NextGroup ==
    \/ (env.reqs = 0 /\ HttpScale("h1"))
    \/ ScaleStep("h1")
    \/ HttpReturn("h1")

SpecGroup == InitGroup /\ [][NextGroup]_vars

\* C33: the instances a Scale launches go to the group named by the first
\* entry of instances[] whose name is not empty, and to "default" only when
\* no entry has a name.
C33_LaunchesIntoFirstNamedGroup ==
    \A p \in Procs :
        (tk[p].op = "scale" /\ tk[p].pc = "su_workers" /\ tk[p].inflight \cup tk[p].made # {})
            => LET named == {i \in DOMAIN cfg.instances : cfg.instances[i].name # ""}
               IN tk[p].group = IF named = {} THEN "default"
                                ELSE cfg.instances[CHOOSE i \in named :
                                                      \A j \in named : i <= j].name

\* C34: while a Scale runs the register's phase moves only along planning,
\* launch, verify, done (scale-up) or planning, terminate, verify, done
\* (scale-down); Reset names the operation before the first launch or
\* terminate call, only the final Done clears it, and a Scale that did
\* something and returns success leaves phase "done" from phase "verify".
C34_PhasesInOrder ==
    [][LET t == tk["h1"]
           u == tk'["h1"]
           up == {<<"planning", "launch">>, <<"launch", "verify">>, <<"verify", "done">>}
           down == {<<"planning", "terminate">>, <<"terminate", "verify">>,
                    <<"verify", "done">>}
       IN (t.op = "scale" /\ t.pc \notin {"idle", "ret"})
            => /\ (metrics'.phase # metrics.phase)
                    => \/ t.pc \in {"su_reset", "sd_reset"} /\ metrics'.phase = "planning"
                       \/ metrics.op = "scale-up" /\ <<metrics.phase, metrics'.phase>> \in up
                       \/ metrics.op = "scale-down"
                            /\ <<metrics.phase, metrics'.phase>> \in down
               /\ (metrics'.op # metrics.op)
                    => \/ t.pc = "su_reset" /\ metrics'.op = "scale-up"
                       \/ t.pc = "sd_reset" /\ metrics'.op = "scale-down"
                       \/ /\ t.pc = "sc_done" /\ metrics'.op = "" /\ metrics'.phase = "done"
                          /\ u.pc = "ret" /\ u.res = "ok"
               /\ (u.nt # t.nt) => metrics.op = "scale-down" /\ metrics.phase = "terminate"
               /\ (cloud' # cloud /\ t.pc = "su_workers")
                    => metrics.op = "scale-up" /\ metrics.phase = "launch"
               /\ (u.pc = "ret" /\ u.res = "ok" /\ t.pc # "sc_list")
                    => /\ metrics.phase = "verify" /\ metrics.op # ""
                       /\ metrics'.phase = "done" /\ metrics'.op = ""]_vars

\* a scale-down that terminated two instances has returned success
C34_ScaleDownCompleted ==
    /\ tk["h1"].pc = "ret" /\ tk["h1"].op = "scale" /\ tk["h1"].res = "ok"
    /\ tk["h1"].nt = 2
    /\ metrics.phase = "done" /\ metrics.op = "" /\ metrics.tr = 2 /\ metrics.ts = 2

\* C35: once a POST /scale to d, with d at least the declared total, has
\* terminated instances and returned success, no launch of the control loop
\* raises the number of live instances above d.
C35_LoopKeepsExplicitScaleDown ==
    [][LET t == tk["h1"]
       IN (/\ t.pc = "ret" /\ t.op = "scale" /\ t.res = "ok" /\ t.nt > 0
           /\ t.desired >= SumCounts(cfg.instances)
           /\ tk["loop"].pc = "su_workers"
           /\ Live' # Live)
            => Cardinality(Live') <= t.desired]_vars

\* C36: a ReconcileLoadBalancer never removes the backend of an instance it
\* listed as live and tagged, and so not of one whose primary-IP lookup
\* failed.
C36_ReconcileKeepsLiveBackends ==
    [][\A p \in Procs :
         (tk[p].pc = "lb_apply" /\ tk'[p].pc = "ret")
            => (backends \cap Range(tk[p].listed)) \subseteq backends']_vars

\* C37: a scale-down in which a termination failed returns an error and
\* leaves the ledger as it was before the operation: no selected record is
\* Terminated, those of the instances that were terminated included, and
\* CountActive has its value of before.
C37_FailedScaleDownLeavesLedger ==
    (/\ tk["h1"].pc = "ret" /\ tk["h1"].op = "scale"
     /\ tk["h1"].nt > 0 /\ metrics.tf > 0)
        => /\ tk["h1"].res = "err"
           /\ ledger = [i \in 1..env.l0 |-> Rec(i)]
           /\ CountActive(ledger) = env.l0

\* of two selected instances one was terminated and the other's termination
\* failed; both records are still Active
C37_OneTerminatedOneFailed ==
    /\ tk["h1"].pc = "ret" /\ tk["h1"].op = "scale" /\ tk["h1"].res = "err"
    /\ tk["h1"].nt = 2 /\ metrics.tf = 1 /\ metrics.ts = 1
    /\ CountActive(ledger) = 2
    /\ \E i \in DOMAIN ledger : cloud[ledger[i].id] = "TERMINATED"

\* C38: in every state in which no engine operation is running, and so
\* whenever one has returned with success or with an error, the metrics
\* register names no operation.
C38_IdleRegisterWhenNothingRuns ==
    (\A p \in Procs : ~InEngine(p)) => metrics.op = ""

\* C39: a Scale(d) that read a ledger count of at most d and a remote count
\* above d selects no record, makes no TerminateInstances call, changes
\* neither the cloud nor the ledger, and returns only from its verification,
\* with an error.
C39_NothingToRemoveEndsInError ==
    [][LET t == tk["h1"]
           u == tk'["h1"]
       IN (/\ t.op = "scale"
           /\ t.pc \in {"sd_select", "sd_lb", "sd_reset", "sd_begin", "sd_workers", "verify"}
           /\ t.current <= t.desired /\ t.remote > t.desired)
            => /\ u.ids = <<>> /\ u.nt = 0
               /\ cloud' = cloud /\ ledger' = ledger /\ backends' = backends
               /\ Cardinality(Listed(cloud')) = t.remote
               /\ u.pc \notin {"sy_list", "sy_reset", "sc_done"}
               /\ (u.pc = "ret")
                    => /\ t.pc = "verify" /\ u.res = "err" /\ metrics'.err
                       /\ metrics'.op = "scale-down"]_vars

\* two instances are live, the ledger records one, Scale(1) has given up
C39_GaveUpAboveDesired ==
    /\ tk["h1"].pc = "ret" /\ tk["h1"].op = "scale" /\ tk["h1"].res = "err"
    /\ tk["h1"].desired = 1 /\ tk["h1"].nt = 0
    /\ CountActive(ledger) = 1
    /\ Cardinality(Listed(cloud)) = 2
    /\ metrics.op = "scale-down" /\ metrics.phase = "verify" /\ metrics.tr = 0
    /\ metrics.err

\* Two goroutines of the daemon call the store's AddActiveInstances,
\* RemoveActiveInstances and CountActive at any time.
NextStore ==
    \E p \in {"h1", "h2"} : StoreLock(p) \/ StoreLoad(p) \/ StoreWrite(p) \/ StoreRename(p)

SpecStore == InitConc /\ [][NextStore]_vars

\* C40: mutations of the ledger issued by different goroutines are never
\* lost: whenever no call holds the mutex the persisted document has every
\* record the returned calls added and has Terminated as many records as
\* they marked; a CountActive returns the count of that document, while no
\* other call is between its load and its save.
C40_NoLedgerMutationLost ==
    [][LET added == tk'["h1"].i + tk'["h2"].i
           marked == tk'["h1"].nt + tk'["h2"].nt
           doc == Load(env'.path, ledger').doc
       IN /\ (env'.mu = "none")
               => /\ Len(doc) = env.l0 + added
                  /\ Len(doc) - CountActive(doc) = marked
          /\ \A p \in {"h1", "h2"} :
               (tk[p].pc = "st_load" /\ tk[p].op = "count" /\ tk'[p].pc = "idle")
                  => /\ tk'[p].current = env.l0 + added - marked
                     /\ \A q \in {"h1", "h2"} \ {p} : tk[q].pc \in {"idle"}]_vars

\* both goroutines have added and removed records, and the document has
\* all of it
C40_BothGoroutinesMutated ==
    /\ env.mu = "none"
    /\ tk["h1"].i > 0 /\ tk["h2"].i > 0
    /\ tk["h1"].nt > 0 /\ tk["h2"].nt > 0
    /\ Len(ledger) = env.l0 + tk["h1"].i + tk["h2"].i
    /\ CountActive(ledger) = Len(ledger) - tk["h1"].nt - tk["h2"].nt

====
